---- MODULE Spec2Model ----
(***************************************************************************)
(* Travel-Optimizer: the multi-segment price-fetch scheduler.              *)
(*                                                                         *)
(* The module holds several specifications over one set of variables:      *)
(*   SpecFetch    fetch_segment run by concurrent callers: cache, in-flight *)
(*                registry, rate limiter (flight_planner.py)               *)
(*   SpecLimiter  SpecFetch with a running clock (RateLimiter pacing)      *)
(*   FairFetch    SpecFetch with weak fairness of every caller's steps     *)
(*   SpecSweep    the itinerary sweep of run(): budget, per-query barrier, *)
(*                best candidates, the summary and the clean summary       *)
(*   SpecFallback the two orchestrators and their fallback fetch mode      *)
(*   SpecJob      a flight-insights job, its planner subprocesses and      *)
(*                JobQueue.cancel                                          *)
(*   SpecCorrupt  SpecFetch over a cache path load_cache cannot read       *)
(*   FairSweep    SpecSweep with weak fairness of the main thread          *)
(*   SpecPlan     run() from its configuration to its queries: nodes,      *)
(*                dates, stay nights, schedules, trip requests             *)
(*   SpecError    a provider exception, classified and written as a row    *)
(*   SpecScore    the scoring and the sort of summary rows                 *)
(*   SpecKey      make_cache_key under two fetch_segment calls             *)
(*   SpecCombos   SpecPlan under a return filter, a trip-nights range and a *)
(*                combination cap                                          *)
(*   SpecBudget   SpecSweep under a max_calls budget                       *)
(*   SpecTrips    SpecPlan over one itinerary of any shape, under each     *)
(*                trip strategy                                            *)
(* Each specification leaves the variables of the others unchanged.        *)
(***************************************************************************)
EXTENDS Integers, Sequences, FiniteSets, TLC

\* ------------------------------------------------------------------ bounds
NumCalls == 2          \* fetch_segment calls of one run
MaxTime == 5           \* last instant of the model clock (time.monotonic)

\* 60.0 / per_minute, in clock ticks
MinInterval == 2

Calls == 1..NumCalls
Keys == {"k1", "k2"}   \* values of make_cache_key

\* ------------------------------------------------------------ fetch results
\* A FetchResult as fetch_segment builds it: status, candidate list, error text.
Resp(s, f, e) == [status |-> s, flights |-> f, error |-> e]

Null == Resp("null", <<>>, "")

\* the placeholder an owner publishes when it produced no data
InflightFailed == Resp("error", <<>>, "inflight failed")

\* What get_flights can do on one invocation: return a raw candidate list
\* (candidates are identified by their field tuple), or raise.
ProviderLists == {<<1, 1, 2>>}

ProviderOutcomes ==
    {[kind |-> "list", flights |-> f] : f \in ProviderLists}
        \cup {[kind |-> "noflights", flights |-> <<>>],
              [kind |-> "exception", flights |-> <<>>]}

RECURSIVE DedupeFrom(_, _)
DedupeFrom(flights, seen) ==
    IF flights = <<>> THEN <<>>
    ELSE IF Head(flights) \in seen
         THEN DedupeFrom(Tail(flights), seen)
         ELSE <<Head(flights)>> \o DedupeFrom(Tail(flights), seen \cup {Head(flights)})

dedupe_flights(flights) == DedupeFrom(flights, {})

Truncate(flights, max_flights) ==
    IF max_flights > 0 /\ Len(flights) > max_flights
    THEN SubSeq(flights, 1, max_flights)
    ELSE flights

\* the data dict of one live fetch (the inner try / except of fetch_segment)
LiveData(out, max_flights) ==
    CASE out.kind = "list" ->
            Resp("ok", Truncate(dedupe_flights(out.flights), max_flights), "")
      [] out.kind = "noflights" -> Resp("empty", <<>>, "No flights found")
      [] OTHER -> Resp("error", <<>>, "provider failed")

\* what a persisted cache file can hold for one key
FileEntries ==
    {Null, Resp("ok", <<1, 2>>, ""), Resp("error", <<>>, "provider failed")}

\* a returned result: the response plus the from_cache / cache_source tags
Tagged(r, fc, src) == [resp |-> r, from_cache |-> fc, cache_source |-> src]

NoResult == Tagged(Null, FALSE, "")
Raised == Tagged(Null, FALSE, "raised")

\* the sum of f over the set S
RECURSIVE SumOver(_, _)
SumOver(f, S) ==
    IF S = {} THEN 0
    ELSE LET x == CHOOSE y \in S : TRUE IN f[x] + SumOver(f, S \ {x})

\* ------------------------------------------------------------- sweep inputs
MaxSchedules == 2      \* schedules one run iterates over
MaxQueries == 2        \* trip requests of one schedule
MaxPairs == 2          \* airport pairs of one query
MaxFetches == 2        \* fetches of one run

\* Python's None in a numeric or text field
NoValue == -1

\* flight.price: a currency mark and an amount, or a text without digits
PriceText(a) == [currency |-> "EUR", amount |-> a]
NoPrice == [currency |-> "", amount |-> NoValue]

\* flight.duration: the text "<h> hr <m> min"
DurationText(h, m) == [hr |-> h, min |-> m]
NoDuration == [hr |-> NoValue, min |-> NoValue]

\* a flight dict of a response; the flights of the model leave and land in
\* daytime, `ahead` is arrival_time_ahead being non-empty
Flight(n, p, d, s, a) ==
    [name |-> n, price |-> p, duration |-> d, stops |-> s, ahead |-> a]

AF == Flight("AF", PriceText(100), DurationText(1, 0), 0, FALSE)
KL == Flight("KL", PriceText(100), DurationText(1, 0), 1, FALSE)
LH == Flight("LH", PriceText(200), DurationText(1, 30), 0, TRUE)

\* what fetch_segment can return to the sweep for one airport pair
SweepResponses ==
    {Resp("empty", <<>>, "No flights found"),
     Resp("error", <<>>, "provider failed"),
     Resp("ok", <<>>, ""),
     Resp("ok", <<AF>>, ""),
     Resp("ok", <<LH, KL>>, "")}

\* constraints.max_calls as configured
BudgetChoices == {0, 1}

\* parse_price: the digits of the text as a number, None without digits
parse_price(raw) == IF raw = NoPrice THEN NoValue ELSE raw.amount

\* flight_planner.parse_duration_minutes: its patterns "(\\d+)\\s*hr" and
\* "(\\d+)\\s*min" are raw strings, so each asks for a backslash in the text;
\* a duration text has none, hours and minutes stay 0 and the result is None
parse_duration_minutes(value) == NoValue

\* cleaning.parse_duration_minutes
clean_parse_duration_minutes(value) ==
    IF value = NoDuration THEN NoValue
    ELSE IF value.hr = 0 /\ value.min = 0 THEN NoValue
    ELSE value.hr * 60 + value.min

\* is_night_segment for a flight in daytime
is_night_segment(ahead) == IF ahead THEN 1 ELSE 0

NoBest == [price_value |-> NoValue]

BestKeys == (1..MaxSchedules) \X (0..(MaxQueries - 1))

\* a fetch task of the sweep: itinerary, query, airport pair
Task(id, q, p) == [itinerary_id |-> id, query_index |-> q, pair |-> p]

\* ---------------------------------------------------------------- variables
VARIABLES
    phase,        \* "load", "run", "saved", "crashed": position of run() around the sweep
    cacheFile,    \* persisted cache: key -> entry (Null: no entry)
    cache_path,   \* what cache_path names when the run starts: "json" (a cache
                  \* file save_cache wrote), "garbage" (a file that is not such
                  \* a JSON document), "no-read" (a file open(path, "r") is
                  \* refused on), "no-access" (a file every open is refused
                  \* on), "directory"
    cache,        \* cache_entries: key -> entry (Null: absent)
    cache_tags,   \* per key: the tags ("from_cache", "cache_source") set on the
                  \* dict cache_entries holds for it
    pooled,       \* executor is not None (max_workers > 1): locks and in-flight registry
    limited,      \* rate_limiter is not None
    max_flights,  \* constraints.max_flight_options_per_segment
    pc,           \* per call: position inside fetch_segment
    key,          \* per call: its cache key
    owner,        \* per call: inflight_owner
    entryRef,     \* per call: the InflightEntry it holds (named by its owner call), 0: none
    data,         \* per call: the local `data`
    result,       \* per call: what the call returned
    inflight,     \* registry: key -> owner call of the registered entry, 0: none
    entryResp,    \* per InflightEntry (by owner call): response
    entryEvent,   \* per InflightEntry: event is set
    eventSets,    \* per InflightEntry: number of event.set() calls
    called,       \* per call: number of get_flights invocations
    acquires,     \* per call: number of rate_limiter.acquire() calls
    now,          \* time.monotonic(), counted from the limiter's construction
    next_time,    \* RateLimiter.next_time
    slots,        \* the slots reserved by acquire, in reservation order
    startedAfter, \* per call: the calls that had returned when it started
    missAtStart   \* per call: its key was not in the cache when it started

fetchVars ==
    <<phase, cacheFile, cache_path, cache, cache_tags, pooled, limited, max_flights, pc, key, owner,
      entryRef, data, result, inflight, entryResp, entryEvent, eventSets,
      called, acquires, now, next_time, slots, startedAfter, missAtStart>>

\* the itinerary sweep of run() and the two summaries written after it
VARIABLES
    executor,        \* executor is not None (max_workers > 1)
    max_calls,       \* constraints.max_calls, 0: no budget
    at,              \* position of run(): "schedule", "query", "fetch", "end"
    schedule_index,  \* schedules started so far; itinerary_id is it%04d of it
    queries,         \* len(trip_requests) of the current schedule
    query_idx,       \* index of the current query in trip_requests
    pairs,           \* len(pairs) of the current query, after the budget cut
    futures,         \* fetch tasks submitted and not yet handled
    calls,           \* responses handled
    calls_submitted, \* fetches budgeted so far
    stop_early,      \* the max_calls budget ran out
    summary_meta,    \* per itinerary_id: its meta["queries"]
    summary_best,    \* (itinerary_id, query_idx) -> best entry, NoBest: none
    rows,            \* the raw flights CSV, in writing order
    summary_rows,    \* the summary CSV written by run()
    clean_summary,   \* the clean summary CSV written by clean_flights()
    cache_saved      \* save_cache(cache_path, cache_entries) has returned

sweepVars ==
    <<executor, max_calls, at, schedule_index, queries, query_idx, pairs,
      futures, calls, calls_submitted, stop_early, summary_meta, summary_best,
      rows, summary_rows, clean_summary, cache_saved>>

\* an orchestrator (_run_google_flights, run_flight_insights) around the planner
VARIABLES
    orchestrator,    \* "google": _run_google_flights, "insights": run_flight_insights
    fetch_mode,      \* _resolve_fetch_modes()[0]
    fallback_mode,   \* _resolve_fetch_modes()[1], "": None
    step,            \* position of the orchestrator: "primary", "decide", "next"
    idx,             \* _run_google_flights: index of the destination in hand
    sweeps,          \* the fetch modes the planner was run under, for this destination
    primary,         \* the responses of the sweep under fetch_mode, Crashed: planner failed
    flight_rows,     \* rows loaded from the clean flights CSV
    loaded_rows      \* rows loaded from the clean summary CSV

flowVars ==
    <<orchestrator, fetch_mode, fallback_mode, step, idx, sweeps, primary,
      flight_rows, loaded_rows>>

\* a flight-insights job of the JobQueue, its planner subprocesses, a canceller
VARIABLES
    job_pc,          \* position of the job thread
    status,          \* job.status
    cancel_event,    \* job.cancel_event is set
    process,         \* job.process: the registered planner run, 0: None
    run_no,          \* planner runs started by the job (primary, fallback)
    proc,            \* per planner run: state of its subprocess
    cancel_pc,       \* position of a JobQueue.cancel call
    cancel_process,  \* the local `process` of that cancel call
    cancels          \* cancel calls made

jobVars ==
    <<job_pc, status, cancel_event, process, run_no, proc, cancel_pc, cancel_process, cancels>>

\* run() from its configuration to the end of its loop
VARIABLES
    config,          \* the JSON configuration
    plan_at,         \* position of run(): "config", "itinerary", "schedule", "query", "raised", "done"
    itineraries,     \* build_itineraries(config["itineraries"])
    departure_dates, \* build_date_list(config["departure_dates"])
    warnings,        \* what validate_config logged
    itinerary_idx,   \* itineraries started
    combos,          \* the schedules iter_schedule_combos yields for the itinerary
    combo_idx,       \* schedules taken from the generator
    trip_requests,   \* build_trip_requests of the schedule in hand
    request_idx,     \* queries of the schedule done
    fetched,         \* fetches issued
    written          \* raw rows written

planVars ==
    <<config, plan_at, itineraries, departure_dates, warnings, itinerary_idx,
      combos, combo_idx, trip_requests, request_idx, fetched, written>>

\* two fetch_segment calls of one run, told apart by their cache keys
VARIABLES
    first_request,   \* the request of the first call
    second_request,  \* the request of the second call
    key_entries,     \* cache_entries: the keys that hold an ok entry
    key_at,          \* "first", "second", "done"
    key_calls,       \* get_flights invocations
    second_hit       \* the second call returned from_cache

keyVars ==
    <<first_request, second_request, key_entries, key_at, key_calls, second_hit>>

\* the scoring of summary rows
VARIABLES
    candidates,      \* summary rows before scoring
    scored_rows,     \* the rows scored and sorted
    score_at         \* "rows", "scored"

scoreVars == <<candidates, scored_rows, score_at>>

\* one provider exception on its way to the raw CSV
VARIABLES
    exc,             \* the exception get_flights raised
    error_data,      \* the data dict of the except branch
    error_row,       \* the raw row handle_response wrote
    error_at         \* "raised", "classified", "written"

errorVars == <<exc, error_data, error_row, error_at>>

restVars == <<planVars, keyVars, scoreVars, errorVars>>

vars == <<fetchVars, sweepVars, flowVars, jobVars, restVars>>

\* ---------------------------------------------------------------- load / save
load_cache_unfiltered(file) == file

\* entries of the file whose status is ok
\* entries of the file whose status is ok; {} when open, json.load or the
\* walk over the entries raises
load_cache(file) ==
    IF cache_path # "json" THEN [k \in Keys |-> Null]
    ELSE [k \in Keys |-> IF file[k].status = "ok" THEN file[k] ELSE Null]

\* the paths open(path, "w") raises on (PermissionError, IsADirectoryError)
Unwritable == {"no-access", "directory"}

\* run() before load_cache, whatever the cache path names
FetchBlank ==
    /\ phase = "load"
    /\ cacheFile \in [Keys -> FileEntries]
    /\ cache = [k \in Keys |-> Null]
    /\ cache_tags = [k \in Keys |-> {}]
    /\ pooled \in BOOLEAN
    /\ limited \in BOOLEAN
    /\ max_flights \in {0, 1}
    /\ pc = [c \in Calls |-> "idle"]
    /\ key = [c \in Calls |-> "k1"]
    /\ owner = [c \in Calls |-> FALSE]
    /\ entryRef = [c \in Calls |-> 0]
    /\ data = [c \in Calls |-> Null]
    /\ result = [c \in Calls |-> NoResult]
    /\ inflight = [k \in Keys |-> 0]
    /\ entryResp = [c \in Calls |-> Null]
    /\ entryEvent = [c \in Calls |-> FALSE]
    /\ eventSets = [c \in Calls |-> 0]
    /\ called = [c \in Calls |-> 0]
    /\ acquires = [c \in Calls |-> 0]
    /\ now = 0
    /\ next_time = 0
    /\ slots = <<>>
    /\ startedAfter = [c \in Calls |-> {}]
    /\ missAtStart = [c \in Calls |-> FALSE]

FetchStart == cache_path = "json" /\ FetchBlank

\* --------------------------------------------------- orchestrators and jobs
MaxDestinations == 2   \* destinations _run_google_flights iterates over
MaxRuns == 2           \* planner runs of one job: primary, fallback
MaxCancels == 1        \* JobQueue.cancel calls on one job

Runs == 1..MaxRuns

\* TRAVEL_OPTIMIZER_FLIGHT_FETCH_MODE, stripped and lowered
EnvModes == {"", "auto", "common", "local", "fallback", "other"}

\* _resolve_fetch_modes: (fetch mode, fallback mode), "" for None
resolve_fetch_modes(raw) ==
    IF raw = "" \/ raw = "auto" THEN <<"common", "local">>
    ELSE IF raw = "common" THEN <<"common", "local">>
    ELSE IF raw = "local" THEN <<"local", "">>
    ELSE <<raw, "">>

\* the planner exited with a non-zero code
Crashed == <<Resp("crashed", <<>>, "")>>

\* one destination before its first planner run
FlowStart ==
    /\ step = "primary"
    /\ idx = 1
    /\ sweeps = <<>>
    /\ primary = <<>>
    /\ flight_rows = <<>>
    /\ loaded_rows = <<>>

\* no orchestrator under study
FlowIdle ==
    /\ orchestrator = "google"
    /\ fetch_mode = "local"
    /\ fallback_mode = ""
    /\ FlowStart

\* a queued job, nobody cancelling
JobStart ==
    /\ job_pc = "queued"
    /\ status = "queued"
    /\ cancel_event = FALSE
    /\ process = 0
    /\ run_no = 0
    /\ proc = [r \in Runs |-> "none"]
    /\ cancel_pc = "idle"
    /\ cancel_process = 0
    /\ cancels = 0

\* run() before its loop
SweepStart ==
    /\ at = "schedule"
    /\ schedule_index = 0
    /\ queries = 0
    /\ query_idx = 0
    /\ pairs = 0
    /\ futures = {}
    /\ calls = 0
    /\ calls_submitted = 0
    /\ stop_early = FALSE
    /\ summary_meta = <<>>
    /\ summary_best = [k \in BestKeys |-> NoBest]
    /\ rows = <<>>
    /\ summary_rows = <<>>
    /\ clean_summary = <<>>
    /\ cache_saved = FALSE

\* the sweep not under study
SweepIdle == executor = FALSE /\ max_calls = 0 /\ SweepStart

\* run() before it reads its configuration
PlanStart ==
    /\ plan_at = "config"
    /\ itineraries = <<>>
    /\ departure_dates = <<>>
    /\ warnings = {}
    /\ itinerary_idx = 0
    /\ combos = <<>>
    /\ combo_idx = 0
    /\ trip_requests = <<>>
    /\ request_idx = 0
    /\ fetched = 0
    /\ written = 0

\* no configuration under study
PlanIdle == config = <<>> /\ PlanStart

\* no call made yet
KeyStart ==
    /\ second_request = <<>>
    /\ key_entries = {}
    /\ key_at = "first"
    /\ key_calls = 0
    /\ second_hit = FALSE

KeyIdle == first_request = <<>> /\ KeyStart

ScoreStart == scored_rows = <<>> /\ score_at = "rows"

ScoreIdle == candidates = <<>> /\ ScoreStart

ErrorStart == error_data = <<>> /\ error_row = <<>> /\ error_at = "raised"

ErrorIdle == exc = <<>> /\ ErrorStart

\* the parts of the module that are not under study
RestIdle == PlanIdle /\ KeyIdle /\ ScoreIdle /\ ErrorIdle

InitFetch == FetchStart /\ SweepIdle /\ FlowIdle /\ JobStart /\ RestIdle

\* fetch_segment not under study: one fixed configuration, no call started
FetchIdle ==
    /\ FetchStart
    /\ cacheFile = [k \in Keys |-> Null]
    /\ ~pooled
    /\ ~limited
    /\ max_flights = 0

cfgVars == <<pooled, limited, max_flights, cache_path>>
\* what fetch_segment and the cache load / save never write
fixedVars == <<cfgVars, sweepVars, flowVars, jobVars, restVars>>
limVars == <<now, next_time, slots>>
entryVars == <<entryResp, entryEvent, eventSets>>
histVars == <<startedAfter, missAtStart>>

\* run(): load_cache, then RateLimiter(...) whose next_time starts at the
\* construction instant
LoadCache ==
    /\ phase = "load"
    /\ phase' = "run"
    /\ cache' = load_cache(cacheFile)
    /\ next_time' = now
    /\ UNCHANGED <<cacheFile, cache_tags, fixedVars, pc, key, owner, entryRef, data, result,
                   inflight, entryVars, called, acquires, now, slots, histVars>>

Active(c) == pc[c] \notin {"idle", "done"}

\* save_cache(cache_path, cache_entries), reached only when no fetch raised;
\* its open(path, "w") is in no try block, so run() ends there when it raises
SaveCache ==
    /\ phase = "run"
    /\ \A c \in Calls : ~Active(c) /\ result[c] # Raised
    /\ IF cache_path \in Unwritable
       THEN /\ phase' = "crashed"
            /\ cacheFile' = cacheFile
       ELSE /\ phase' = "saved"
            /\ cacheFile' = cache
    /\ UNCHANGED <<cache, cache_tags, fixedVars, pc, key, owner, entryRef, data, result,
                   inflight, entryVars, called, acquires, limVars, histVars>>

\* ------------------------------------------------------------- fetch_segment
\* where a live fetch begins: `if rate_limiter:` decides whether acquire() runs
Fetching == IF limited THEN "acquire" ELSE "provider"

\* c = d, then c[tag] = value: the tags of d afterwards
SetInPlace(tags, tag) == tags \cup {tag}

\* c = dict(d), then c[tag] = value: c is a new dict, d keeps its tags
SetOnCopy(tags, tag) == tags

\* the cache lookup (under cache_lock when pooled): a hit returns a tagged copy.
\* Calls are tasks of one pool and are told apart only by their start order.
CacheHit(k) == cache[k] # Null /\ cache[k].status = "ok"

FetchLookup(c, k) ==
    /\ phase = "run"
    /\ pc[c] = "idle"
    /\ \A d \in Calls : d < c => pc[d] # "idle"
    /\ pooled \/ \A d \in Calls : ~Active(d)
    /\ key' = [key EXCEPT ![c] = k]
    /\ startedAfter' = [startedAfter EXCEPT ![c] = {d \in Calls : pc[d] = "done"}]
    /\ missAtStart' = [missAtStart EXCEPT ![c] = (cache[k] = Null)]
    /\ IF CacheHit(k)
       THEN /\ result' = [result EXCEPT ![c] = Tagged(cache[k], TRUE, "")]
            /\ pc' = [pc EXCEPT ![c] = "done"]
            /\ cache' = cache
            /\ cache_tags' = [cache_tags EXCEPT ![k] = SetOnCopy(@, "from_cache")]
       ELSE /\ result' = result
            /\ pc' = [pc EXCEPT ![c] = IF pooled THEN "register" ELSE Fetching]
            /\ cache' = [cache EXCEPT ![k] = Null]
            /\ cache_tags' = [cache_tags EXCEPT ![k] = {}]
    /\ UNCHANGED <<phase, cacheFile, fixedVars, owner, entryRef, data, inflight,
                   entryVars, called, acquires, limVars>>

\* a registration that puts its own entry over the registered one
RegisterOver(c) ==
    /\ pc[c] = "register"
    /\ inflight' = [inflight EXCEPT ![key[c]] = c]
    /\ entryRef' = [entryRef EXCEPT ![c] = c]
    /\ owner' = [owner EXCEPT ![c] = TRUE]
    /\ pc' = [pc EXCEPT ![c] = Fetching]
    /\ UNCHANGED <<phase, cacheFile, cache, cache_tags, fixedVars, key, data, result,
                   entryVars, called, acquires, limVars, histVars>>

\* with inflight_lock: register as owner, or pick up the registered entry
FetchRegister(c) ==
    /\ pc[c] = "register"
    /\ IF inflight[key[c]] = 0
       THEN /\ inflight' = [inflight EXCEPT ![key[c]] = c]
            /\ entryRef' = [entryRef EXCEPT ![c] = c]
            /\ owner' = [owner EXCEPT ![c] = TRUE]
            /\ pc' = [pc EXCEPT ![c] = Fetching]
       ELSE /\ inflight' = inflight
            /\ entryRef' = [entryRef EXCEPT ![c] = inflight[key[c]]]
            /\ owner' = owner
            /\ pc' = [pc EXCEPT ![c] = "wait"]
    /\ UNCHANGED <<phase, cacheFile, cache, cache_tags, fixedVars, key, data, result,
                   entryVars, called, acquires, limVars, histVars>>

\* inflight_entry.event.wait() returns; reuse the owner's response when there is one
FetchWait(c) ==
    /\ pc[c] = "wait"
    /\ entryEvent[entryRef[c]]
    /\ IF entryResp[entryRef[c]] # Null
       THEN /\ result' = [result EXCEPT
                             ![c] = Tagged(entryResp[entryRef[c]], TRUE, "inflight")]
            /\ pc' = [pc EXCEPT ![c] = "done"]
       ELSE /\ result' = result
            /\ pc' = [pc EXCEPT ![c] = Fetching]
    /\ UNCHANGED <<phase, cacheFile, cache, cache_tags, fixedVars, key, owner, entryRef, data,
                   inflight, entryVars, called, acquires, limVars, histVars>>

\* RateLimiter.acquire, the part under self.lock
AcquireSlot(t, nt) == IF t < nt THEN nt ELSE t

AcquireNextBurst(t, nt) == IF t < nt THEN nt + MinInterval ELSE t

AcquireNext(t, nt) == IF t < nt THEN nt + MinInterval ELSE t + MinInterval

\* rate_limiter.acquire(); the sleep that follows is not timed
FetchAcquire(c) ==
    /\ pc[c] = "acquire"
    /\ slots' = Append(slots, AcquireSlot(now, next_time))
    /\ next_time' = AcquireNext(now, next_time)
    /\ acquires' = [acquires EXCEPT ![c] = @ + 1]
    /\ pc' = [pc EXCEPT ![c] = "provider"]
    /\ UNCHANGED <<phase, cacheFile, cache, cache_tags, fixedVars, key, owner, entryRef, data,
                   result, inflight, entryVars, called, now, histVars>>

\* an exception raised in the outer try, outside the provider call: data stays None
FetchAcquireRaise(c) ==
    /\ pc[c] = "acquire"
    /\ result' = [result EXCEPT ![c] = Raised]
    /\ pc' = [pc EXCEPT ![c] = "finally"]
    /\ UNCHANGED <<phase, cacheFile, cache, cache_tags, fixedVars, key, owner, entryRef, data,
                   inflight, entryVars, called, acquires, limVars, histVars>>

\* what goes into the cache after a live fetch
Stored(old, d) == IF d.status = "ok" THEN d ELSE old

\* get_flights returns or raises; dedupe_flights, truncation, or the except
\* branch; then, if data.status == "ok": cache[key] = data; fresh = dict(data).
\* The provider call is in progress while pc = "provider".
FetchProvider(c, out) ==
    /\ pc[c] = "provider"
    /\ called' = [called EXCEPT ![c] = @ + 1]
    /\ data' = [data EXCEPT ![c] = LiveData(out, max_flights)]
    /\ cache' = [cache EXCEPT ![key[c]] = Stored(@, data'[c])]
    /\ cache_tags' = [cache_tags EXCEPT
                         ![key[c]] = IF data'[c].status = "ok"
                                     THEN SetOnCopy({}, "from_cache") ELSE @]
    /\ result' = [result EXCEPT ![c] = Tagged(data'[c], FALSE, "")]
    /\ pc' = [pc EXCEPT ![c] = "finally"]
    /\ UNCHANGED <<phase, cacheFile, fixedVars, key, owner, entryRef,
                   inflight, entryVars, acquires, limVars, histVars>>

PublishedAsIs(d) == d

\* the response an owner publishes in its entry
Published(d) == IF d = Null THEN InflightFailed ELSE d

\* finally: the owner fills inflight_entry.response
FinallyResponse(c) ==
    /\ pc[c] = "finally"
    /\ IF owner[c]
       THEN /\ entryResp' = [entryResp EXCEPT ![entryRef[c]] = Published(data[c])]
            /\ pc' = [pc EXCEPT ![c] = "set"]
       ELSE /\ entryResp' = entryResp
            /\ pc' = [pc EXCEPT ![c] = "done"]
    /\ UNCHANGED <<phase, cacheFile, cache, cache_tags, fixedVars, key, owner, entryRef, data,
                   result, inflight, entryEvent, eventSets, called, acquires,
                   limVars, histVars>>

\* inflight_entry.event.set()
FinallySet(c) ==
    /\ pc[c] = "set"
    /\ entryEvent' = [entryEvent EXCEPT ![entryRef[c]] = TRUE]
    /\ eventSets' = [eventSets EXCEPT ![entryRef[c]] = @ + 1]
    /\ pc' = [pc EXCEPT ![c] = "pop"]
    /\ UNCHANGED <<phase, cacheFile, cache, cache_tags, fixedVars, key, owner, entryRef, data,
                   result, inflight, entryResp, called, acquires, limVars, histVars>>

\* with inflight_lock: inflight.pop(key, None)
FinallyPop(c) ==
    /\ pc[c] = "pop"
    /\ inflight' = [inflight EXCEPT ![key[c]] = 0]
    /\ pc' = [pc EXCEPT ![c] = "done"]
    /\ UNCHANGED <<phase, cacheFile, cache, cache_tags, fixedVars, key, owner, entryRef, data,
                   result, entryVars, called, acquires, limVars, histVars>>

\* time.monotonic() advances
Tick ==
    /\ phase = "run"
    /\ now < MaxTime
    /\ now' = now + 1
    /\ UNCHANGED <<phase, cacheFile, cache, cache_tags, fixedVars, pc, key, owner, entryRef,
                   data, result, inflight, entryVars, called, acquires,
                   next_time, slots, histVars>>

CallStep(c) ==
    \/ \E k \in Keys : FetchLookup(c, k)
    \/ FetchRegister(c)
    \/ FetchWait(c)
    \/ FetchAcquire(c)
    \/ FetchAcquireRaise(c)
    \/ \E out \in ProviderOutcomes : FetchProvider(c, out)
    \/ FinallyResponse(c)
    \/ FinallySet(c)
    \/ FinallyPop(c)

NextFetch ==
    \/ LoadCache
    \/ SaveCache
    \/ \E c \in Calls : CallStep(c)

SpecFetch == InitFetch /\ [][NextFetch]_vars

\* the pooled run with a limiter, under a running clock
InitLimiter ==
    /\ InitFetch
    /\ pooled
    /\ limited
    /\ max_flights = 0
    /\ cacheFile["k2"] = Null
    /\ cacheFile["k1"].status # "error"

SpecLimiter == InitLimiter /\ [][NextFetch \/ Tick]_vars

\* the pooled run; every started caller keeps running and every provider call
\* returns or raises
InitFair ==
    /\ InitFetch
    /\ pooled
    /\ max_flights = 0
    /\ cacheFile["k2"] = Null
    /\ cacheFile["k1"].status # "error"

FairFetch ==
    InitFair /\ [][NextFetch]_vars /\ \A c \in Calls : WF_vars(CallStep(c))

\* the run over a cache path load_cache cannot read a cache from
CorruptPaths == {"garbage", "no-read", "no-access", "directory"}

InitCorrupt ==
    /\ cache_path \in CorruptPaths
    /\ FetchBlank
    /\ cacheFile = [k \in Keys |-> Null]
    /\ SweepIdle
    /\ FlowIdle
    /\ JobStart
    /\ RestIdle

SpecCorrupt == InitCorrupt /\ [][NextFetch]_vars

\* ----------------------------------------------------- run(): the itinerary sweep
\* A raw CSV row keeps the columns clean_flights reads: itinerary, query,
\* airport pair, flight name, duration, stops, arrival_time_ahead, price.
\* The row of a response without flights (status is not ok):
StatusRow(t, response) ==
    [itinerary_id |-> t.itinerary_id, query_index |-> t.query_index,
     from_airport |-> t.pair, flight_name |-> "", duration |-> NoDuration,
     stops |-> NoValue, ahead |-> FALSE, price_value |-> NoValue,
     status |-> response.status, error |-> response.error]

\* the row of one flight of an ok response
FlightRow(t, flight, price_value) ==
    [itinerary_id |-> t.itinerary_id, query_index |-> t.query_index,
     from_airport |-> t.pair, flight_name |-> flight.name,
     duration |-> flight.duration, stops |-> flight.stops, ahead |-> flight.ahead,
     price_value |-> price_value, status |-> "ok", error |-> ""]

BestEntry(price_value, duration_min, stops, night, pair, airline) ==
    [price_value |-> price_value, duration_min |-> duration_min,
     stops |-> stops, night |-> night, from_airport |-> pair,
     airline |-> airline]

\* `current_best is None or price_value < current_best["price_value"]`
Improves(price_value, current_best) ==
    current_best = NoBest \/ price_value < current_best.price_value

\* the loop over response["flights"] in handle_response; st holds the
\* summary_best map and the raw rows written so far
RECURSIVE HandleFlights(_, _, _)
HandleFlights(flights, t, st) ==
    IF flights = <<>> THEN st
    ELSE LET flight == Head(flights)
             price_value == parse_price(flight.price)
             k == <<t.itinerary_id, t.query_index>>
             entry == BestEntry(price_value,
                                parse_duration_minutes(flight.duration),
                                flight.stops, is_night_segment(flight.ahead),
                                t.pair, flight.name)
             best == IF price_value # NoValue /\ Improves(price_value, st.best[k])
                     THEN [st.best EXCEPT ![k] = entry]
                     ELSE st.best
         IN HandleFlights(Tail(flights), t,
                          [best |-> best,
                           rows |-> Append(st.rows, FlightRow(t, flight, price_value))])

\* a handler that writes rows for flights only
handle_response_flights_only(response, t, st) ==
    IF response.status # "ok"
    THEN st
    ELSE HandleFlights(response.flights, t, st)

handle_response(response, t, st) ==
    IF response.status # "ok"
    THEN [st EXCEPT !.rows = Append(@, StatusRow(t, response))]
    ELSE HandleFlights(response.flights, t, st)

\* ------------------------------------------------------------ summary rows
\* the queries of an itinerary that have an entry in a summary_best map
Priced(best, id, n) == {q \in 0..(n - 1) : best[<<id, q>>] # NoBest}

\* one summary row, before scoring; `positive` is the extra `queries > 0`
\* of clean_flights
SummaryRow(id, n, best, positive) ==
    LET entries == Priced(best, id, n)
        field(name) == [q \in entries |-> best[<<id, q>>][name]]
        known(name) == {q \in entries : best[<<id, q>>][name] # NoValue}
        priced_segments == Cardinality(entries)
        complete == priced_segments = n /\ (positive => n > 0)
        duration_ok == known("duration_min") = entries
        stops_ok == known("stops") = entries
    IN [itinerary_id |-> id,
        query_count |-> n,
        priced_segments |-> priced_segments,
        min_total_price |->
            IF complete THEN SumOver(field("price_value"), entries) ELSE NoValue,
        total_duration_min |->
            IF duration_ok /\ complete
            THEN SumOver(field("duration_min"), known("duration_min"))
            ELSE NoValue,
        total_stops |->
            IF stops_ok /\ complete
            THEN SumOver(field("stops"), known("stops"))
            ELSE NoValue,
        night_segments |->
            IF complete THEN SumOver(field("night"), entries) ELSE NoValue,
        score |-> NoValue,
        segment_best_airports |->
            [q \in 0..(n - 1) |->
                IF q \in entries THEN best[<<id, q>>].from_airport ELSE 0],
        segment_best_airlines |->
            [q \in 0..(n - 1) |->
                IF q \in entries THEN best[<<id, q>>].airline ELSE ""]]

\* scoring.weights defaults, in percent
WeightPrice == 60
WeightDuration == 20
WeightStops == 15
WeightNight == 5

valid_metric(row, name) == row[name] # NoValue

Eligible(srows) ==
    {i \in 1..Len(srows) :
        /\ valid_metric(srows[i], "min_total_price")
        /\ valid_metric(srows[i], "total_duration_min")
        /\ valid_metric(srows[i], "total_stops")
        /\ valid_metric(srows[i], "night_segments")}

MinOf(S) == CHOOSE x \in S : \A y \in S : x <= y
MaxOf(S) == CHOOSE x \in S : \A y \in S : x >= y

\* round(n / d) to the nearest integer, halves to the even one
RoundDiv(n, d) ==
    LET q == n \div d
        r == n % d
    IN IF 2 * r < d THEN q
       ELSE IF 2 * r > d THEN q + 1
       ELSE IF q % 2 = 0 THEN q ELSE q + 1

\* every eligible row at the full score
FlatScore(srows, el, i) == 10000

\* round(max(0.0, min(1.0, score)) * 100, 2) of one eligible row, in
\* hundredths: normalize() is (value - min) / (max - min), 0 on an empty range
ScoreOf(srows, el, i) ==
    LET vals(name) == {srows[j][name] : j \in el}
        lo(name) == MinOf(vals(name))
        span(name) == MaxOf(vals(name)) - lo(name)
        den(name) == IF span(name) <= 0 THEN 1 ELSE span(name)
        num(name) == IF span(name) <= 0 THEN 0 ELSE srows[i][name] - lo(name)
        dp == den("min_total_price")
        dd == den("total_duration_min")
        ds == den("total_stops")
        dn == den("night_segments")
        all == dp * dd * ds * dn
        loss == WeightPrice * num("min_total_price") * dd * ds * dn
                + WeightDuration * num("total_duration_min") * dp * ds * dn
                + WeightStops * num("total_stops") * dp * dd * dn
                + WeightNight * num("night_segments") * dp * dd * ds
        raw == RoundDiv(100 * (100 * all - loss), all)
    IN IF raw < 0 THEN 0 ELSE IF raw > 10000 THEN 10000 ELSE raw

Scored(srows) ==
    LET el == Eligible(srows)
    IN [i \in 1..Len(srows) |->
            IF i \in el THEN [srows[i] EXCEPT !.score = ScoreOf(srows, el, i)]
            ELSE srows[i]]

\* score_key: (1, 0.0) for a row without score, (0, score) otherwise
score_key(row) == IF row.score = NoValue THEN <<1, 0>> ELSE <<0, row.score>>

KeyGreater(a, b) == a[1] > b[1] \/ (a[1] = b[1] /\ a[2] > b[2])

Without(s, i) == SubSeq(s, 1, i - 1) \o SubSeq(s, i + 1, Len(s))

\* list.sort(key=score_key, reverse=True): descending by key, rows of equal
\* key left in their order
RECURSIVE SortByScoreKey(_)
SortByScoreKey(srows) ==
    IF srows = <<>> THEN <<>>
    ELSE LET top == CHOOSE i \in 1..Len(srows) :
                        /\ \A j \in 1..Len(srows) :
                              ~KeyGreater(score_key(srows[j]), score_key(srows[i]))
                        /\ \A j \in 1..(i - 1) :
                              score_key(srows[j]) # score_key(srows[i])
         IN <<srows[top]>> \o SortByScoreKey(Without(srows, top))

\* the eligible rows scored, then the sort; each stage is computed once, as
\* the value of a one-element set, and kept as a tuple
ScoredAndSorted(srows) ==
    CHOOSE out \in {SortByScoreKey(scored) :
                       scored \in {Scored(plain) \o <<>> : plain \in {srows \o <<>>}}} : TRUE

\* the summary run() writes: one row per summary_meta entry, scored, sorted
RunSummary(meta, best) ==
    ScoredAndSorted([id \in 1..Len(meta) |-> SummaryRow(id, meta[id], best, FALSE)])

\* ------------------------------------------------------------ clean_flights
\* itinerary ids in the order the raw rows first mention them
RECURSIVE FirstSeen(_, _)
FirstSeen(raw, seen) ==
    IF raw = <<>> THEN <<>>
    ELSE IF Head(raw).itinerary_id \in seen THEN FirstSeen(Tail(raw), seen)
    ELSE <<Head(raw).itinerary_id>>
            \o FirstSeen(Tail(raw), seen \cup {Head(raw).itinerary_id})

\* meta["max_query_index"] + 1 of an itinerary the raw rows mention
CleanQueries(raw, id) ==
    MaxOf({raw[i].query_index : i \in {j \in 1..Len(raw) : raw[j].itinerary_id = id}}) + 1

\* a raw row is kept when its price and its duration are valid
RowKept(row) ==
    LET price_value == row.price_value
        duration_min == clean_parse_duration_minutes(row.duration)
        valid_price == price_value # NoValue /\ price_value > 0
        valid_duration == duration_min # NoValue /\ duration_min > 0
    IN valid_price /\ valid_duration

\* the clean flights CSV
KeptRows(raw) == SelectSeq(raw, RowKept)

\* the pass over the raw rows: a kept row updates summary_best
RECURSIVE CleanBest(_, _)
CleanBest(raw, best) ==
    IF raw = <<>> THEN best
    ELSE LET row == Head(raw)
             price_value == row.price_value
             duration_min == clean_parse_duration_minutes(row.duration)
             k == <<row.itinerary_id, row.query_index>>
             entry == BestEntry(price_value, duration_min, row.stops,
                                is_night_segment(row.ahead), row.from_airport,
                                row.flight_name)
         IN CleanBest(Tail(raw),
                      IF RowKept(row) /\ Improves(price_value, best[k])
                      THEN [best EXCEPT ![k] = entry]
                      ELSE best)

\* the summary rows of clean_flights before scoring, from the itinerary ids
\* and the summary_best map of the pass over the raw rows
CleanRows(raw, ids, best) ==
    [i \in 1..Len(ids) |-> SummaryRow(ids[i], CleanQueries(raw, ids[i]), best, TRUE)]

\* (ids and best are computed once, as values of one-element sets)
CleanSummary(raw) ==
    CHOOSE srows \in {ScoredAndSorted(CleanRows(raw, ids, best)) :
                         ids \in {FirstSeen(raw, {})},
                         best \in {CleanBest(raw, [k \in BestKeys |-> NoBest])}} : TRUE

\* ------------------------------------------------------ run(): loop actions
InitSweep ==
    /\ FetchIdle
    /\ FlowIdle
    /\ JobStart
    /\ RestIdle
    /\ executor \in BOOLEAN
    /\ max_calls \in BudgetChoices
    /\ SweepStart

sweepCfg == <<executor, max_calls>>
outVars == <<summary_rows, clean_summary, cache_saved>>

\* the next schedule of iter_schedule_combos: its id, its trip requests, its
\* summary_meta entry
NextSchedule(n) ==
    /\ at = "schedule"
    /\ ~stop_early
    /\ schedule_index < MaxSchedules
    /\ schedule_index' = schedule_index + 1
    /\ summary_meta' = Append(summary_meta, n)
    /\ queries' = n
    /\ query_idx' = 0
    /\ at' = "query"
    /\ UNCHANGED <<fetchVars, flowVars, jobVars, restVars, sweepCfg, pairs, futures, calls, calls_submitted,
                   stop_early, summary_best, rows, outVars>>

\* a query loop that submits every pair, whatever the budget
StartQueryUnbudgeted(n) ==
    /\ at = "query"
    /\ calls_submitted + n <= MaxFetches
    /\ pairs' = n
    /\ calls_submitted' = calls_submitted + n
    /\ futures' = futures \cup {Task(schedule_index, query_idx, p) : p \in 1..n}
    /\ at' = "fetch"
    /\ UNCHANGED <<fetchVars, flowVars, jobVars, restVars, sweepCfg, schedule_index, queries, query_idx, calls,
                   stop_early, summary_meta, summary_best, rows, outVars>>

\* the head of the query loop: the airport pairs of the query (n of them),
\* the max_calls budget, then the submission of one fetch task per pair
StartQuery(n) ==
    /\ at = "query"
    /\ LET remaining == max_calls - calls_submitted
           kept == IF max_calls # 0 /\ n > remaining THEN remaining ELSE n
       IN IF max_calls # 0 /\ remaining <= 0
          THEN /\ stop_early' = TRUE
               /\ at' = "schedule"
               /\ UNCHANGED <<pairs, calls_submitted, futures>>
          ELSE /\ calls_submitted + kept <= MaxFetches
               /\ pairs' = kept
               /\ calls_submitted' = calls_submitted + kept
               /\ futures' = futures \cup
                     {Task(schedule_index, query_idx, p) : p \in 1..kept}
               /\ at' = "fetch"
               /\ UNCHANGED stop_early
    /\ UNCHANGED <<fetchVars, flowVars, jobVars, restVars, sweepCfg, schedule_index, queries, query_idx, calls,
                   summary_meta, summary_best, rows, outVars>>

\* without executor the pairs are fetched and handled one after the other
NextInLine(t) == \A u \in futures : t.pair <= u.pair

\* one fetch task returns and the main thread handles its response; with an
\* executor as_completed hands the tasks over in completion order
HandleResponse(t, response) ==
    /\ at = "fetch"
    /\ t \in futures
    /\ executor \/ NextInLine(t)
    /\ LET st == handle_response(response, t, [best |-> summary_best, rows |-> rows])
       IN /\ summary_best' = st.best
          /\ rows' = st.rows
    /\ calls' = calls + 1
    /\ futures' = futures \ {t}
    /\ UNCHANGED <<fetchVars, flowVars, jobVars, restVars, sweepCfg, at, schedule_index, queries, query_idx,
                   pairs, calls_submitted, stop_early, summary_meta, outVars>>

BarrierOpen == TRUE

\* the loop over as_completed(futures), or over pairs, has run to its end
BarrierPassed == futures = {}

\* the query loop moves on: next trip request, or back to the schedule loop
EndQuery ==
    /\ at = "fetch"
    /\ BarrierPassed
    /\ query_idx' = query_idx + 1
    /\ at' = IF query_idx + 1 < queries THEN "query" ELSE "schedule"
    /\ UNCHANGED <<fetchVars, flowVars, jobVars, restVars, sweepCfg, schedule_index, queries, pairs, futures,
                   calls, calls_submitted, stop_early, summary_meta,
                   summary_best, rows, outVars>>

\* the schedule loop is left (no schedule remains, max_itineraries is
\* reached, or stop_early); run() writes the summary CSV, saves the cache
\* (to a path it can write), then calls clean_flights on the raw CSV, which
\* writes the clean summary
WriteSummary ==
    /\ at = "schedule"
    /\ summary_rows' = RunSummary(summary_meta, summary_best)
    /\ cache_saved' = TRUE
    /\ clean_summary' = CleanSummary(rows)
    /\ at' = "end"
    /\ UNCHANGED <<fetchVars, flowVars, jobVars, restVars, sweepCfg, schedule_index, queries, query_idx, pairs,
                   futures, calls, calls_submitted, stop_early, summary_meta,
                   summary_best, rows>>

NextSweep ==
    \/ \E n \in 1..MaxQueries : NextSchedule(n)
    \/ \E n \in 0..MaxPairs : StartQuery(n)
    \/ \E t \in futures : \E response \in SweepResponses : HandleResponse(t, response)
    \/ EndQuery
    \/ WriteSummary

SpecSweep == InitSweep /\ [][NextSweep]_vars

\* the sweep under a max_calls budget
BudgetLimits == {1, 2}

InitBudget ==
    /\ FetchIdle
    /\ FlowIdle
    /\ JobStart
    /\ RestIdle
    /\ executor \in BOOLEAN
    /\ max_calls \in BudgetLimits
    /\ SweepStart

SpecBudget == InitBudget /\ [][NextSweep]_vars

\* the main thread of run() keeps running, and every fetch returns
FairSweep == InitSweep /\ [][NextSweep]_vars /\ WF_vars(NextSweep)

\* ------------------------------------------- orchestrators around the planner
\* The planner run of an orchestrator: one schedule, one round-trip query, one
\* response per airport pair; the raw rows it writes
RECURSIVE PlannerRows(_, _, _)
PlannerRows(responses, p, st) ==
    IF p > Len(responses) THEN st.rows
    ELSE PlannerRows(responses, p + 1, handle_response(responses[p], Task(1, 0, p), st))

RawRows(responses) ==
    PlannerRows(responses, 1, [best |-> [k \in BestKeys |-> NoBest], rows |-> <<>>])

\* what one planner run can come to: a non-zero exit, or a response per pair
PlannerOutcomes ==
    {Crashed} \cup UNION {[1..n -> SweepResponses] : n \in 1..MaxPairs}

InitFlow ==
    /\ FetchIdle
    /\ SweepIdle
    /\ JobStart
    /\ RestIdle
    /\ orchestrator \in {"google", "insights"}
    /\ \E raw \in EnvModes :
          /\ fetch_mode = resolve_fetch_modes(raw)[1]
          /\ fallback_mode = resolve_fetch_modes(raw)[2]
    /\ FlowStart

flowCfg == <<orchestrator, fetch_mode, fallback_mode>>

\* the planner under fetch_mode, then the load of the clean CSVs; a failed
\* planner ends the destination (continue) or the job (RuntimeError)
RunPrimary(out) ==
    /\ step = "primary"
    /\ sweeps' = Append(sweeps, fetch_mode)
    /\ primary' = out
    /\ IF out = Crashed
       THEN /\ step' = "next"
            /\ UNCHANGED <<flight_rows, loaded_rows>>
       ELSE /\ step' = "decide"
            /\ flight_rows' = KeptRows(RawRows(out))
            /\ loaded_rows' = CleanSummary(RawRows(out))
    /\ UNCHANGED <<fetchVars, sweepVars, jobVars, restVars, flowCfg, idx>>

\* `not rows` of _run_google_flights, `not flight_rows and not summary_rows`
\* of run_flight_insights
NothingLoaded ==
    IF orchestrator = "google" THEN loaded_rows = <<>>
    ELSE flight_rows = <<>> /\ loaded_rows = <<>>

\* a retry that does not look at what the primary sweep loaded
RetryWhenConfigured == fallback_mode # "" /\ fallback_mode # fetch_mode

NeedFallback ==
    NothingLoaded /\ fallback_mode # "" /\ fallback_mode # fetch_mode

\* the planner once more, under fallback_mode
RunFallback(out) ==
    /\ step = "decide"
    /\ NeedFallback
    /\ sweeps' = Append(sweeps, fallback_mode)
    /\ step' = "next"
    /\ IF out = Crashed
       THEN UNCHANGED <<flight_rows, loaded_rows>>
       ELSE /\ flight_rows' = KeptRows(RawRows(out))
            /\ loaded_rows' = CleanSummary(RawRows(out))
    /\ UNCHANGED <<fetchVars, sweepVars, jobVars, restVars, flowCfg, idx, primary>>

\* no retry: the rows of the primary sweep are used as they are
KeepPrimary ==
    /\ step = "decide"
    /\ ~NeedFallback
    /\ step' = "next"
    /\ UNCHANGED <<fetchVars, sweepVars, jobVars, restVars, flowCfg, idx, sweeps, primary,
                   flight_rows, loaded_rows>>

\* _run_google_flights: the loop over destinations
NextDestination ==
    /\ step = "next"
    /\ orchestrator = "google"
    /\ idx < MaxDestinations
    /\ idx' = idx + 1
    /\ step' = "primary"
    /\ sweeps' = <<>>
    /\ primary' = <<>>
    /\ flight_rows' = <<>>
    /\ loaded_rows' = <<>>
    /\ UNCHANGED <<fetchVars, sweepVars, jobVars, restVars, flowCfg>>

NextFlow ==
    \/ \E out \in PlannerOutcomes : RunPrimary(out)
    \/ \E out \in PlannerOutcomes : RunFallback(out)
    \/ KeepPrimary
    \/ NextDestination

SpecFallback == InitFlow /\ [][NextFlow]_vars

\* ------------------------------------------------- a job and its cancellation
InitJob == FetchIdle /\ SweepIdle /\ FlowIdle /\ JobStart /\ RestIdle

otherVars == <<fetchVars, sweepVars, flowVars, restVars>>
cancelVars == <<cancel_pc, cancel_process, cancels>>

\* JobCancelled reaches _run_job
Cancelled ==
    /\ status' = "cancelled"
    /\ job_pc' = "finished"

\* _run_job: the job starts running
RunJob ==
    /\ job_pc = "queued"
    /\ status' = "running"
    /\ job_pc' = "stage"
    /\ UNCHANGED <<otherVars, cancel_event, process, run_no, proc, cancelVars>>

\* stage(label, ratio) at the head of run_planner: progress, then the
\* cancellation check
Stage ==
    /\ job_pc = "stage"
    /\ IF cancel_event THEN Cancelled
       ELSE job_pc' = "spawn" /\ UNCHANGED status
    /\ UNCHANGED <<otherVars, cancel_event, process, run_no, proc, cancelVars>>

\* subprocess.Popen(cmd, ...)
Spawn ==
    /\ job_pc = "spawn"
    /\ run_no' = run_no + 1
    /\ proc' = [proc EXCEPT ![run_no + 1] = "running"]
    /\ job_pc' = "register"
    /\ UNCHANGED <<otherVars, status, cancel_event, process, cancelVars>>

\* set_process_cb(process)
SetProcess ==
    /\ job_pc = "register"
    /\ process' = run_no
    /\ job_pc' = "poll"
    /\ UNCHANGED <<otherVars, status, cancel_event, run_no, proc, cancelVars>>

\* the head of a turn of the polling loop: cancel() raises JobCancelled when
\* the event is set
Poll ==
    /\ job_pc = "poll"
    /\ IF cancel_event THEN Cancelled
       ELSE job_pc' = "check" /\ UNCHANGED status
    /\ UNCHANGED <<otherVars, cancel_event, process, run_no, proc, cancelVars>>

\* the rest of the turn: process.poll() reports the exit and the loop is left,
\* or the turn reports progress, sleeps and the loop goes round
PollExit ==
    /\ job_pc = "check"
    /\ job_pc' = IF proc[run_no] # "running" THEN "unregister" ELSE "poll"
    /\ UNCHANGED <<otherVars, status, cancel_event, process, run_no, proc, cancelVars>>

\* set_process_cb(None), then the return code check
ClearProcess ==
    /\ job_pc = "unregister"
    /\ process' = 0
    /\ IF proc[run_no] = "exited"
       THEN job_pc' = "loaded" /\ UNCHANGED status
       ELSE status' = "failed" /\ job_pc' = "finished"
    /\ UNCHANGED <<otherVars, cancel_event, run_no, proc, cancelVars>>

\* the rows are loaded and call for the fallback mode: run_planner again
Retry ==
    /\ job_pc = "loaded"
    /\ run_no < MaxRuns
    /\ job_pc' = "stage"
    /\ UNCHANGED <<otherVars, status, cancel_event, process, run_no, proc,
                   cancelVars>>

\* the stages after the planner, then the end of _run_job
Finish ==
    /\ job_pc = "loaded"
    /\ status' = IF cancel_event THEN "cancelled" ELSE "completed"
    /\ job_pc' = "finished"
    /\ UNCHANGED <<otherVars, cancel_event, process, run_no, proc, cancelVars>>

\* the planner subprocess ends by itself, with exit code 0 or not
ProcessExit(r, how) ==
    /\ proc[r] = "running"
    /\ proc' = [proc EXCEPT ![r] = how]
    /\ UNCHANGED <<otherVars, job_pc, status, cancel_event, process, run_no,
                   cancelVars>>

\* JobQueue.cancel under the lock: set the event, read job.process
CancelMark ==
    /\ cancel_pc = "idle"
    /\ cancels < MaxCancels
    /\ cancels' = cancels + 1
    /\ cancel_event' = TRUE
    /\ cancel_process' = process
    /\ cancel_pc' = "terminate"
    /\ UNCHANGED <<otherVars, job_pc, status, process, run_no, proc>>

\* JobQueue.cancel after the lock: `if process is not None: process.terminate()`
CancelTerminate ==
    /\ cancel_pc = "terminate"
    /\ proc' = IF cancel_process # 0 /\ proc[cancel_process] = "running"
               THEN [proc EXCEPT ![cancel_process] = "terminated"]
               ELSE proc
    /\ cancel_pc' = "idle"
    /\ UNCHANGED <<otherVars, job_pc, status, cancel_event, process, run_no,
                   cancel_process, cancels>>

NextJob ==
    \/ RunJob
    \/ Stage
    \/ Spawn
    \/ SetProcess
    \/ Poll
    \/ PollExit
    \/ ClearProcess
    \/ Retry
    \/ Finish
    \/ \E r \in Runs : \E how \in {"exited", "crashed"} : ProcessExit(r, how)
    \/ CancelMark
    \/ CancelTerminate

SpecJob == InitJob /\ [][NextJob]_vars

\* ------------------------------------------------- run(): the configuration
MaxItineraries == 2    \* itineraries of one configuration
MaxDates == 2          \* departure dates of one configuration

\* A node string is a sequence of characters. Word characters ([A-Za-z0-9_])
\* of the model are a, b, c and their capitals.
WordChars == {"a", "b", "c", "A", "B", "C"}

upper(ch) ==
    CASE ch = "a" -> "A" [] ch = "b" -> "B" [] ch = "c" -> "C" [] OTHER -> ch

\* the text of a character sequence, upper-cased
RECURSIVE UpperText(_)
UpperText(s) == IF s = <<>> THEN "" ELSE upper(Head(s)) \o UpperText(Tail(s))

\* str.strip()
RECURSIVE LStrip(_)
LStrip(s) == IF s # <<>> /\ Head(s) = " " THEN LStrip(Tail(s)) ELSE s

RECURSIVE RStrip(_)
RStrip(s) ==
    IF s # <<>> /\ s[Len(s)] = " " THEN RStrip(SubSeq(s, 1, Len(s) - 1)) ELSE s

Strip(s) == LStrip(RStrip(s))

\* str.split(","): the pieces between the commas
RECURSIVE SplitFrom(_, _)
SplitFrom(s, piece) ==
    IF s = <<>> THEN <<piece>>
    ELSE IF Head(s) = "," THEN <<piece>> \o SplitFrom(Tail(s), <<>>)
    ELSE SplitFrom(Tail(s), Append(piece, Head(s)))

Split(s) == SplitFrom(s, <<>>)

\* normalize_airports over character sequences: strip, upper, drop the empty
\* and the already seen
RECURSIVE NormalizeFrom(_, _)
NormalizeFrom(values, seen) ==
    IF values = <<>> THEN <<>>
    ELSE LET code == UpperText(Strip(Head(values)))
         IN IF code = "" \/ code \in seen
            THEN NormalizeFrom(Tail(values), seen)
            ELSE <<code>> \o NormalizeFrom(Tail(values), seen \cup {code})

\* normalize_airports over codes that are already texts (no blank, upper case)
RECURSIVE normalize_airports(_, _)
normalize_airports(values, seen) ==
    IF values = <<>> THEN <<>>
    ELSE IF Head(values) = "" \/ Head(values) \in seen
         THEN normalize_airports(Tail(values), seen)
         ELSE <<Head(values)>> \o normalize_airports(Tail(values), seen \cup {Head(values)})

\* NodeSpec.airports_override: None, or a list of codes
None == [given |-> FALSE, codes |-> <<>>]
Override(codes) == [given |-> TRUE, codes |-> codes]

NodeSpec(group, airports_override) ==
    [group |-> group, airports_override |-> airports_override]

\* parse_node_spec raised ValueError("Invalid node spec")
InvalidNodeSpec == NodeSpec("", None)

\* the longest prefix of word characters
RECURSIVE WordPrefix(_)
WordPrefix(s) ==
    IF s = <<>> \/ Head(s) \notin WordChars THEN 0 ELSE 1 + WordPrefix(Tail(s))

NoMatch == [matched |-> FALSE, group1 |-> <<>>, group2 |-> <<>>]

\* NODE_RE.match: r"^([A-Za-z0-9_]+)(?:\\(([^)]+)\\))?$". In the raw string
\* `\\` is a literal backslash and the parentheses that follow it are group
\* delimiters: after the word, the pattern takes a backslash, one or more
\* characters other than ")", and a backslash; group 2 holds those characters
\* and the closing backslash.
NODE_RE(s) ==
    LET n == WordPrefix(s)
        rest == SubSeq(s, n + 1, Len(s))
    IN IF n = 0 THEN NoMatch
       ELSE IF rest = <<>>
            THEN [matched |-> TRUE, group1 |-> SubSeq(s, 1, n), group2 |-> <<>>]
       ELSE IF /\ Len(rest) >= 3
               /\ rest[1] = "\\"
               /\ rest[Len(rest)] = "\\"
               /\ \A i \in 2..(Len(rest) - 1) : rest[i] # ")"
            THEN [matched |-> TRUE, group1 |-> SubSeq(s, 1, n), group2 |-> Tail(rest)]
       ELSE NoMatch

\* parse_node_spec for a node written as a string
parse_node_spec(raw) ==
    LET match == NODE_RE(Strip(raw))
    IN IF ~match.matched THEN InvalidNodeSpec
       ELSE IF match.group2 # <<>>
            THEN NodeSpec(UpperText(match.group1),
                          Override(NormalizeFrom(Split(match.group2), {})))
       ELSE NodeSpec(UpperText(match.group1), None)

\* build_itineraries: the nodes of every raw itinerary
build_itineraries(raw_itineraries) ==
    [i \in 1..Len(raw_itineraries) |->
        [j \in 1..Len(raw_itineraries[i]) |-> parse_node_spec(raw_itineraries[i][j])]]

\* ------------------------------------------------------------ dates and stays
\* a date is a day number
DateList(dates) == [kind |-> "dates", dates |-> dates, start |-> 0, end |-> 0, step_days |-> 1]
DateRange(start, end, step_days) ==
    [kind |-> "range", dates |-> <<>>, start |-> start, end |-> end, step_days |-> step_days]

\* sorted(...)
RECURSIVE SortedDates(_)
SortedDates(S) ==
    IF S = {} THEN <<>>
    ELSE LET d == CHOOSE x \in S : \A y \in S : x <= y
         IN <<d>> \o SortedDates(S \ {d})

\* range(lo, hi + 1, step)
RECURSIVE RangeFrom(_, _, _)
RangeFrom(lo, hi, by) ==
    IF lo > hi THEN <<>> ELSE <<lo>> \o RangeFrom(lo + by, hi, by)

\* a function raised ValueError
ValueError == <<-1>>

\* build_date_list; the dates of a list are distinct
build_date_list(cfg) ==
    IF cfg.kind = "dates"
    THEN SortedDates({cfg.dates[i] : i \in 1..Len(cfg.dates)})
    ELSE LET start == IF cfg.start > cfg.end THEN cfg.end ELSE cfg.start
             end == IF cfg.start > cfg.end THEN cfg.start ELSE cfg.end
         IN IF cfg.step_days <= 0 THEN ValueError
            ELSE RangeFrom(start, end, cfg.step_days)

\* a stay_nights entry: {"nights": n}, or {"min", "max", "step"}
Nights(n) == [kind |-> "nights", nights |-> n, min |-> 0, max |-> 0, step |-> 1]
NightRange(min_n, max_n, by) ==
    [kind |-> "range", nights |-> 0, min |-> min_n, max |-> max_n, step |-> by]
Missing == [kind |-> "missing", nights |-> 0, min |-> 0, max |-> 0, step |-> 1]

expand_stay_nights_open(cfg) ==
    IF cfg.kind = "nights" THEN <<cfg.nights>>
    ELSE IF cfg.step <= 0 THEN ValueError
    ELSE RangeFrom(cfg.min, cfg.max - 1, cfg.step)

expand_stay_nights(cfg) ==
    IF cfg.kind = "nights" THEN <<cfg.nights>>
    ELSE LET min_n == IF cfg.min > cfg.max THEN cfg.max ELSE cfg.min
             max_n == IF cfg.min > cfg.max THEN cfg.min ELSE cfg.max
         IN IF cfg.step <= 0 THEN ValueError
            ELSE RangeFrom(min_n, max_n, cfg.step)

Schedule(segment_dates, stay_nights) ==
    [segment_dates |-> segment_dates, stay_nights |-> stay_nights]

\* itertools.product(*stay_lists), the last list varying fastest
RECURSIVE ProductSize(_)
ProductSize(lists) ==
    IF lists = <<>> THEN 1 ELSE Len(Head(lists)) * ProductSize(Tail(lists))

RECURSIVE Combo(_, _)
Combo(lists, k) ==
    IF lists = <<>> THEN <<>>
    ELSE LET rest == ProductSize(Tail(lists))
         IN <<Head(lists)[(k \div rest) + 1]>> \o Combo(Tail(lists), k % rest)

\* a product whose first list varies fastest
RECURSIVE ComboFirstFastest(_, _)
ComboFirstFastest(lists, k) ==
    IF lists = <<>> THEN <<>>
    ELSE <<Head(lists)[(k % Len(Head(lists))) + 1]>>
             \o ComboFirstFastest(Tail(lists), k \div Len(Head(lists)))

ProductFirstFastest(lists) ==
    [k \in 1..ProductSize(lists) |-> ComboFirstFastest(lists, k - 1)]

Product(lists) == [k \in 1..ProductSize(lists) |-> Combo(lists, k - 1)]

\* segment_dates of one combination: the stays added cumulatively
RECURSIVE SegmentDates(_, _)
SegmentDates(current, stays) ==
    IF stays = <<>> THEN <<current>>
    ELSE <<current>> \o SegmentDates(current + Head(stays), Tail(stays))

RECURSIVE Flatten(_)
Flatten(ss) == IF ss = <<>> THEN <<>> ELSE Head(ss) \o Flatten(Tail(ss))

\* build_return_filter: None, the set of the allowed return dates, or their
\* range (start and end swapped when start > end)
AnyReturn == [mode |-> "none", dates |-> {}, start |-> 0, end |-> 0]
ReturnSet(dates) == [mode |-> "set", dates |-> dates, start |-> 0, end |-> 0]
ReturnRange(start, end) ==
    [mode |-> "range", dates |-> {},
     start |-> IF start > end THEN end ELSE start,
     end |-> IF start > end THEN start ELSE end]

date_in_filter(value, filt) ==
    IF filt.mode = "none" THEN TRUE
    ELSE IF filt.mode = "set" THEN value \in filt.dates
    ELSE filt.start <= value /\ value <= filt.end

\* the generator raised ValueError before its first schedule
Raise == [raised |-> TRUE, schedules |-> <<>>]
Yield(schedules) == [raised |-> FALSE, schedules |-> schedules]

\* iter_schedule_combos: Raise, or the schedules it yields, in order.
\* trip_min / trip_max are None (-1) or bounds; max_combos = 0 is no cap.
iter_schedule_combos(nodes, dates, stay_nights_map, return_filter, trip_min, trip_max, max_combos) ==
    LET stop_groups == [i \in 1..(Len(nodes) - 2) |-> nodes[i + 1].group]
        stay_cfg(i) == IF stop_groups[i] \in DOMAIN stay_nights_map
                       THEN stay_nights_map[stop_groups[i]] ELSE Missing
        broken == \E i \in 1..Len(stop_groups) :
                      \/ stay_cfg(i) = Missing
                      \/ expand_stay_nights(stay_cfg(i)) = ValueError
        stay_lists == [i \in 1..Len(stop_groups) |-> expand_stay_nights(stay_cfg(i))]
        stay_combos == Product(stay_lists)
        kept(start_date, stays) ==
            LET segment_dates == SegmentDates(start_date, stays)
                end_date == segment_dates[Len(segment_dates)]
                trip_nights == end_date - start_date
            IN /\ date_in_filter(end_date, return_filter)
               /\ ~(trip_min # -1 /\ trip_nights < trip_min)
               /\ ~(trip_max # -1 /\ trip_nights > trip_max)
        of(start_date) ==
            LET all == [k \in 1..Len(stay_combos) |->
                           Schedule(SegmentDates(start_date, stay_combos[k]), stay_combos[k])]
            IN SelectSeq(all, LAMBDA sch : kept(start_date, sch.stay_nights))
        yielded == Flatten([d \in 1..Len(dates) |-> of(dates[d])])
    IN IF broken THEN Raise
       ELSE IF max_combos # 0 /\ Len(yielded) > max_combos
            THEN Yield(SubSeq(yielded, 1, max_combos))
       ELSE Yield(yielded)

\* ------------------------------------------------------- build_trip_requests
Segment(index, from_node, to_node, depart_date, stay_nights) ==
    [index |-> index, from_node |-> from_node, to_node |-> to_node,
     depart_date |-> depart_date, stay_nights |-> stay_nights]

TripRequest(trip_type, from_node, to_node, depart_date, return_date, stay_nights, segment_index, segment_span) ==
    [trip_type |-> trip_type, from_node |-> from_node, to_node |-> to_node,
     depart_date |-> depart_date, return_date |-> return_date,
     stay_nights |-> stay_nights, segment_index |-> segment_index,
     segment_span |-> segment_span]

Segments(nodes, schedule) ==
    [i \in 1..Len(schedule.segment_dates) |->
        Segment(i - 1, nodes[i], nodes[i + 1], schedule.segment_dates[i],
                IF i <= Len(schedule.stay_nights)
                THEN schedule.stay_nights[i] ELSE NoValue)]

OneWay(seg) ==
    TripRequest("one-way", seg.from_node, seg.to_node, seg.depart_date, NoValue,
                seg.stay_nights, seg.index, 1)

RoundTrip(out, back) ==
    TripRequest("round-trip", out.from_node, out.to_node, out.depart_date,
                back.depart_date, back.depart_date - out.depart_date,
                out.index, back.index - out.index + 1)

\* a scan that goes on with the return leg after a merge
RECURSIVE WhenPossibleNoSkip(_, _, _)
WhenPossibleNoSkip(nodes, segments, i) ==
    IF i > Len(segments) THEN <<>>
    ELSE IF i + 1 <= Len(segments) /\ i + 2 <= Len(nodes)
            /\ nodes[i + 2] = segments[i].from_node
         THEN <<RoundTrip(segments[i], segments[i + 1])>>
                 \o WhenPossibleNoSkip(nodes, segments, i + 1)
         ELSE <<OneWay(segments[i])>> \o WhenPossibleNoSkip(nodes, segments, i + 1)

\* round-trip-when-possible: a segment and the next one pair up when the node
\* after next is the segment's origin
RECURSIVE WhenPossible(_, _, _)
WhenPossible(nodes, segments, i) ==
    IF i > Len(segments) THEN <<>>
    ELSE IF i + 1 <= Len(segments) /\ i + 2 <= Len(nodes)
            /\ nodes[i + 2] = segments[i].from_node
         THEN <<RoundTrip(segments[i], segments[i + 1])>>
                 \o WhenPossible(nodes, segments, i + 2)
         ELSE <<OneWay(segments[i])>> \o WhenPossible(nodes, segments, i + 1)

\* a loop that pairs a segment with the oldest stacked segment it reverses
RECURSIVE ChaslesAnyMatch(_, _)
ChaslesAnyMatch(segments, st) ==
    IF segments = <<>> THEN st
    ELSE LET seg == Head(segments)
             matches == {i \in 1..Len(st.stack) :
                            /\ st.stack[i].from_node = seg.to_node
                            /\ st.stack[i].to_node = seg.from_node}
             first == CHOOSE i \in matches : \A j \in matches : i <= j
         IN IF matches # {}
            THEN ChaslesAnyMatch(Tail(segments),
                                 [stack |-> Without(st.stack, first),
                                  requests |-> Append(st.requests,
                                                      RoundTrip(st.stack[first], seg))])
            ELSE ChaslesAnyMatch(Tail(segments),
                                 [st EXCEPT !.stack = Append(@, seg)])

\* chasles-nested: the loop over the segments with its LIFO stack; st holds
\* the stack and the requests emitted so far
RECURSIVE ChaslesLoop(_, _)
ChaslesLoop(segments, st) ==
    IF segments = <<>> THEN st
    ELSE LET seg == Head(segments)
             top == st.stack[Len(st.stack)]
         IN IF /\ st.stack # <<>>
               /\ top.from_node = seg.to_node
               /\ top.to_node = seg.from_node
            THEN ChaslesLoop(Tail(segments),
                             [stack |-> SubSeq(st.stack, 1, Len(st.stack) - 1),
                              requests |-> Append(st.requests, RoundTrip(top, seg))])
            ELSE ChaslesLoop(Tail(segments),
                             [st EXCEPT !.stack = Append(@, seg)])

\* the round trips alone, without the segments left on the stack
ChaslesPairsOnly(segments) ==
    ChaslesLoop(segments, [stack |-> <<>>, requests |-> <<>>]).requests

\* the requests of chasles-nested in emission order: the round trips, then
\* one one-way per segment left on the stack
ChaslesEmitted(segments) ==
    LET st == ChaslesLoop(segments, [stack |-> <<>>, requests |-> <<>>])
    IN st.requests \o [i \in 1..Len(st.stack) |-> OneWay(st.stack[i])]

RequestBefore(a, b) ==
    \/ a.depart_date < b.depart_date
    \/ a.depart_date = b.depart_date /\ a.segment_index <= b.segment_index

Unsorted(requests) == requests

\* requests.sort(key=lambda req: (req.depart_date, req.segment_index))
RECURSIVE SortRequests(_)
SortRequests(requests) ==
    IF requests = <<>> THEN <<>>
    ELSE LET first == CHOOSE i \in 1..Len(requests) :
                          /\ \A j \in 1..Len(requests) :
                                RequestBefore(requests[i], requests[j])
                          /\ \A j \in 1..(i - 1) :
                                ~RequestBefore(requests[j], requests[i])
         IN <<requests[first]>> \o SortRequests(Without(requests, first))

build_trip_requests(nodes, schedule, trip_strategy) ==
    LET segments == Segments(nodes, schedule)
    IN IF trip_strategy = "segment"
       THEN [i \in 1..Len(segments) |-> OneWay(segments[i])]
       ELSE IF trip_strategy = "round-trip-when-possible"
       THEN WhenPossible(nodes, segments, 1)
       ELSE SortRequests(ChaslesEmitted(segments))

\* ---------------------------------------------------------- airports and pairs
\* airports_for_node raises ValueError("Missing group airports")
MissingGroup(node, groups) ==
    node.airports_override.codes = <<>> /\ node.group \notin DOMAIN groups

airports_for_node(node, groups, max_per_group) ==
    LET airports == IF node.airports_override.codes # <<>>
                    THEN normalize_airports(node.airports_override.codes, {})
                    ELSE normalize_airports(groups[node.group], {})
    IN IF max_per_group # 0 /\ Len(airports) > max_per_group
       THEN SubSeq(airports, 1, max_per_group)
       ELSE airports

\* iter_airport_pairs: origin-major, an airport is never paired with itself
iter_airport_pairs(from_airports, to_airports, max_pairs) ==
    LET all == Flatten([i \in 1..Len(from_airports) |->
                           [j \in 1..Len(to_airports) |->
                               <<from_airports[i], to_airports[j]>>]])
        kept == SelectSeq(all, LAMBDA p : p[1] # p[2])
    IN IF max_pairs # 0 /\ Len(kept) > max_pairs
       THEN SubSeq(kept, 1, max_pairs)
       ELSE kept

\* ------------------------------------------------- run(): from the config on
\* node strings of the model's configurations
NodeA == <<"a">>
NodeB == <<"b">>
NodeC == <<"c">>
NodePadded == <<" ", "a", " ">>
NodeOverride == <<"b", "(", "c", ",", " ", "b", ",", "c", ")">>
NodeSlashed == <<"b", "\\", "c", ",", "b", "\\">>
NodeOpen == <<"b", "(">>

\* raw itineraries: direct, one stop, nested, with an airport override, with
\* a malformed node
RawItineraries ==
    {<<NodePadded, NodeB>>,
     <<NodeA, NodeB, NodeA>>,
     <<NodeA, NodeB, NodeC, NodeB, NodeA>>,
     <<NodeA, NodeOverride, NodeA>>,
     <<NodeA, NodeSlashed>>,
     <<NodeA, NodeOpen>>}

\* config["groups"], upper-cased and normalized: every group holds the
\* airport of its name; group C may be absent
GroupMaps ==
    {[g \in {"A", "B", "C"} |-> <<g>>], [g \in {"A", "B"} |-> <<g>>]}

\* config["stay_nights"]
StayMaps ==
    {[g \in {"B", "C"} |-> IF g = "B" THEN stay ELSE Nights(2)] :
        stay \in {Nights(1), NightRange(3, 5, 1), NightRange(1, 2, 0)}}
        \cup {[g \in {"C"} |-> Nights(2)]}

\* the first n of the days 12, 11, 14, 13, ...
Days(n) == [i \in 1..n |-> IF i % 2 = 1 THEN 11 + i ELSE 9 + i]

\* config["departure_dates"]
DateConfigs ==
    {DateList(Days(n)) : n \in 0..MaxDates} \cup {DateRange(11, 12, 0)}

TripStrategies == {"segment", "round-trip-when-possible", "chasles-nested"}

Config(raw, groups, stay, dates, strategy, cap) ==
    [itineraries |-> raw, groups |-> groups, stay_nights |-> stay,
     departure_dates |-> dates, trip_strategy |-> strategy,
     max_combinations_per_itinerary |-> cap,
     return_filter |-> AnyReturn, trip_min |-> NoValue, trip_max |-> NoValue]

Configs ==
    {Config(raw, groups, stay, dates, strategy, cap) :
        raw \in UNION {[1..n -> RawItineraries] : n \in 1..MaxItineraries},
        groups \in GroupMaps, stay \in StayMaps, dates \in DateConfigs,
        strategy \in TripStrategies, cap \in {0, 1}}

InitPlan ==
    /\ FetchIdle
    /\ SweepIdle
    /\ FlowIdle
    /\ JobStart
    /\ KeyIdle
    /\ ScoreIdle
    /\ ErrorIdle
    /\ config \in Configs
    /\ PlanStart

\* configurations with a return filter, a trip-nights range and a combination
\* cap: one itinerary with one stop or three, stays given in either order
ComboStays ==
    {[g \in {"B", "C"} |-> IF g = "B" THEN stay ELSE Nights(2)] :
        stay \in {NightRange(1, 2, 1), NightRange(5, 1, 2)}}

ComboDates == {DateList(Days(n)) : n \in 1..MaxDates} \cup {DateRange(14, 11, 2)}

ReturnFilters == {AnyReturn, ReturnSet({13, 14, 17, 18}), ReturnRange(19, 14)}

\* trip_nights_range: min and max, each of them None (NoValue) or a number
TripRanges == {<<NoValue, NoValue>>, <<2, NoValue>>, <<NoValue, 6>>, <<5, 8>>}

MaxCap == 3            \* largest max_combinations_per_itinerary

ComboConfigs ==
    {[Config(<<raw>>, [g \in {"A", "B", "C"} |-> <<g>>], stay, dates, "segment", cap)
         EXCEPT !.return_filter = filt, !.trip_min = range[1], !.trip_max = range[2]] :
        raw \in {<<NodeA, NodeB, NodeA>>, <<NodeA, NodeB, NodeC, NodeB, NodeA>>},
        stay \in ComboStays, dates \in ComboDates, filt \in ReturnFilters,
        range \in TripRanges, cap \in 0..MaxCap}

InitCombos ==
    /\ FetchIdle
    /\ SweepIdle
    /\ FlowIdle
    /\ JobStart
    /\ KeyIdle
    /\ ScoreIdle
    /\ ErrorIdle
    /\ config \in ComboConfigs
    /\ PlanStart

\* configurations of one itinerary whose nodes run over three groups, or that
\* holds a node with an airport override; every group has airports and stay
\* nights, a stop in group C lasts no night
MaxNodes == 6          \* nodes of one itinerary

TripItineraries ==
    UNION {[1..n -> {NodeA, NodeB, NodeC}] : n \in 2..MaxNodes}
        \cup {<<NodeA, NodeOverride, NodeA>>, <<NodeOverride, NodeA, NodeB>>}

TripStays ==
    [g \in {"A", "B", "C"} |->
        IF g = "A" THEN Nights(1) ELSE IF g = "B" THEN Nights(2) ELSE Nights(0)]

TripConfigs ==
    {Config(<<raw>>, [g \in {"A", "B", "C"} |-> <<g>>], TripStays,
            DateList(Days(1)), strategy, 0) :
        raw \in TripItineraries, strategy \in TripStrategies}

InitTrips ==
    /\ FetchIdle
    /\ SweepIdle
    /\ FlowIdle
    /\ JobStart
    /\ KeyIdle
    /\ ScoreIdle
    /\ ErrorIdle
    /\ config \in TripConfigs
    /\ PlanStart

\* validate_config: the warnings it logs; it raises nothing
validate_config(groups, parsed, stay_nights_map) ==
    LET used_groups ==
            UNION {{parsed[i][j].group : j \in 1..Len(parsed[i])} : i \in 1..Len(parsed)}
        stop_groups ==
            UNION {{parsed[i][j].group : j \in 2..(Len(parsed[i]) - 1)} :
                      i \in 1..Len(parsed)}
    IN (IF used_groups \ DOMAIN groups # {} THEN {"Missing airport groups"} ELSE {})
           \cup (IF stop_groups \ DOMAIN stay_nights_map # {}
                 THEN {"Missing stay_nights"} ELSE {})

notPlan == <<fetchVars, sweepVars, flowVars, jobVars, keyVars, scoreVars, errorVars>>
loopVars == <<itinerary_idx, combos, combo_idx, trip_requests, request_idx>>
outputVars == <<fetched, written>>

\* run() up to its loop: build_itineraries, build_date_list and the check of
\* its result, validate_config, load_cache, the header of the raw CSV
Prelude ==
    /\ plan_at = "config"
    /\ LET parsed == build_itineraries(config.itineraries)
           invalid == \E i \in 1..Len(parsed) :
                          \E j \in 1..Len(parsed[i]) : parsed[i][j] = InvalidNodeSpec
           dates == build_date_list(config.departure_dates)
       IN IF invalid
          THEN /\ plan_at' = "raised"
               /\ UNCHANGED <<itineraries, departure_dates, warnings>>
          ELSE IF dates = ValueError \/ dates = <<>>
          THEN /\ plan_at' = "raised"
               /\ itineraries' = parsed
               /\ UNCHANGED <<departure_dates, warnings>>
          ELSE /\ plan_at' = "itinerary"
               /\ itineraries' = parsed
               /\ departure_dates' = dates
               /\ warnings' = validate_config(config.groups, parsed, config.stay_nights)
    /\ UNCHANGED <<notPlan, config, loopVars, outputVars>>

\* `for itinerary in itineraries`: the generator of the next itinerary runs up
\* to its first yield, where it raises on a stop group without stay nights or
\* with a non-positive step
NextItinerary ==
    /\ plan_at = "itinerary"
    /\ itinerary_idx < Len(itineraries)
    /\ itinerary_idx' = itinerary_idx + 1
    /\ LET gen == iter_schedule_combos(itineraries[itinerary_idx + 1],
                                       departure_dates, config.stay_nights,
                                       config.return_filter,
                                       config.trip_min, config.trip_max,
                                       config.max_combinations_per_itinerary)
       IN IF gen.raised
          THEN plan_at' = "raised" /\ UNCHANGED combos
          ELSE plan_at' = "schedule" /\ combos' = gen.schedules
    /\ combo_idx' = 0
    /\ UNCHANGED <<notPlan, config, itineraries, departure_dates, warnings,
                   trip_requests, request_idx, outputVars>>

\* `for schedule in iter_schedule_combos(...)`: the next schedule and its trip
\* requests, or the end of the generator
NextCombo ==
    /\ plan_at = "schedule"
    /\ IF combo_idx < Len(combos)
       THEN /\ combo_idx' = combo_idx + 1
            /\ trip_requests' = build_trip_requests(itineraries[itinerary_idx],
                                                    combos[combo_idx + 1],
                                                    config.trip_strategy)
            /\ request_idx' = 0
            /\ plan_at' = "query"
       ELSE /\ plan_at' = "itinerary"
            /\ UNCHANGED <<combo_idx, trip_requests, request_idx>>
    /\ UNCHANGED <<notPlan, config, itineraries, departure_dates, warnings,
                   itinerary_idx, combos, outputVars>>

\* one turn of the query loop: airports_for_node for both nodes, the airport
\* pairs, one fetch per pair and the raw row of its response (every response
\* of this part leaves one row)
RunQuery ==
    /\ plan_at = "query"
    /\ IF request_idx < Len(trip_requests)
       THEN LET request == trip_requests[request_idx + 1]
                from_node == request.from_node
                to_node == request.to_node
            IN IF MissingGroup(from_node, config.groups)
                     \/ MissingGroup(to_node, config.groups)
               THEN plan_at' = "raised" /\ UNCHANGED <<request_idx, outputVars>>
               ELSE LET pairs_ == iter_airport_pairs(
                                      airports_for_node(from_node, config.groups, 0),
                                      airports_for_node(to_node, config.groups, 0), 0)
                    IN /\ fetched' = fetched + Len(pairs_)
                       /\ written' = written + Len(pairs_)
                       /\ request_idx' = request_idx + 1
                       /\ UNCHANGED plan_at
       ELSE plan_at' = "schedule" /\ UNCHANGED <<request_idx, outputVars>>
    /\ UNCHANGED <<notPlan, config, itineraries, departure_dates, warnings,
                   itinerary_idx, combos, combo_idx, trip_requests>>

\* the loop over the itineraries is over: summary, save_cache, clean_flights
EndRun ==
    /\ plan_at = "itinerary"
    /\ itinerary_idx = Len(itineraries)
    /\ plan_at' = "done"
    /\ UNCHANGED <<notPlan, config, itineraries, departure_dates, warnings,
                   loopVars, outputVars>>

NextPlan ==
    \/ Prelude
    \/ NextItinerary
    \/ NextCombo
    \/ RunQuery
    \/ EndRun

SpecPlan == InitPlan /\ [][NextPlan]_vars

\* run() over one itinerary of any shape, under each trip strategy
SpecTrips == InitTrips /\ [][NextPlan]_vars

\* run() under a return filter, a trip-nights range and a combination cap
SpecCombos == InitCombos /\ [][NextPlan]_vars

\* ------------------------------------------- a provider exception, recorded
\* An exception message is a sequence of pieces: n characters that are not
\* whitespace, n whitespace characters, or the text "No flights found".
ErrorLimit == 300      \* clean_error keeps text[:300]
MarkerLen == 16        \* len("No flights found")
MaxOver == 2           \* characters a message may have beyond a limit, or short of it

Text(n) == [kind |-> "text", n |-> n]
Space(n) == [kind |-> "space", n |-> n]
Marker == [kind |-> "marker", n |-> MarkerLen]

RECURSIVE TextLen(_)
TextLen(text) == IF text = <<>> THEN 0 ELSE Head(text).n + TextLen(Tail(text))

\* str(value).split(): the runs of characters that are not whitespace
IsWordPiece(piece) == piece.kind # "space"

SplitWords(text) == SelectSeq(text, IsWordPiece)

\* " ".join(words)
RECURSIVE JoinWords(_)
JoinWords(words) ==
    IF Len(words) <= 1 THEN words
    ELSE <<Head(words), Space(1)>> \o JoinWords(Tail(words))

\* text[:n]
RECURSIVE Take(_, _)
Take(text, n) ==
    IF text = <<>> \/ n <= 0 THEN <<>>
    ELSE IF Head(text).n <= n THEN <<Head(text)>> \o Take(Tail(text), n - Head(text).n)
    ELSE <<[kind |-> IF Head(text).kind = "space" THEN "space" ELSE "text", n |-> n]>>

Ellipsis == Text(3)

clean_error(value) ==
    LET text == JoinWords(SplitWords(value))
    IN  IF TextLen(text) > ErrorLimit
        THEN Take(text, ErrorLimit) \o <<Ellipsis>>
        ELSE text

is_no_flights_error(value) == \E i \in 1..Len(value) : value[i].kind = "marker"

\* lengths of the first word: short, and around the two lengths at which the
\* cleaned message reaches ErrorLimit (alone, or followed by " No flights found")
WordLens ==
    {1} \cup ((ErrorLimit - MaxOver)..(ErrorLimit + MaxOver))
        \cup ((ErrorLimit - MarkerLen - 1 - MaxOver)..(ErrorLimit - MarkerLen - 1 + MaxOver))

Messages ==
    {lead \o <<Text(n)>> \o rest \o trail :
        lead \in {<<>>, <<Space(2)>>},
        n \in WordLens,
        rest \in {<<>>, <<Space(1), Marker>>, <<Space(3), Marker>>, <<Space(1), Text(MarkerLen)>>},
        trail \in {<<>>, <<Space(1)>>}}

InitError ==
    /\ FetchIdle
    /\ SweepIdle
    /\ FlowIdle
    /\ JobStart
    /\ PlanIdle
    /\ KeyIdle
    /\ ScoreIdle
    /\ exc \in Messages
    /\ ErrorStart

notError == <<fetchVars, sweepVars, flowVars, jobVars, planVars, keyVars, scoreVars>>

\* fetch_segment, `except Exception as exc:`
Classify ==
    /\ error_at = "raised"
    /\ error_data' = [status |-> IF is_no_flights_error(exc) THEN "empty" ELSE "error",
                      error |-> clean_error(exc),
                      flights |-> <<>>]
    /\ error_at' = "classified"
    /\ UNCHANGED <<notError, exc, error_row>>

\* handle_response, `if response["status"] != "ok":` the row of the raw CSV
WriteErrorRow ==
    /\ error_at = "classified"
    /\ error_row' = [status |-> error_data.status, error |-> error_data.error]
    /\ error_at' = "written"
    /\ UNCHANGED <<notError, exc, error_data>>

NextError ==
    \/ Classify
    \/ WriteErrorRow

SpecError == InitError /\ [][NextError]_vars

\* ------------------------------------------------- the scoring of a summary
MaxRows == 2           \* rows of one summary

\* one row of summary_rows before scoring: its four metrics, and no score
Candidate(id, price, duration, stops, night) ==
    [itinerary_id |-> id, min_total_price |-> price, total_duration_min |-> duration,
     total_stops |-> stops, night_segments |-> night, score |-> NoValue]

\* the metrics of a row; a row with a query without price has no total
Metrics ==
    [price : {100, 150, 200, NoValue}, duration : {60, 90}, stops : {0, 1}, night : {0, 1}]

\* the summaries of n rows
CandidateRows(n) ==
    {[i \in 1..n |-> Candidate(i, m[i].price, m[i].duration, m[i].stops, m[i].night)] :
        m \in [1..n -> Metrics]}

InitScore ==
    /\ FetchIdle
    /\ SweepIdle
    /\ FlowIdle
    /\ JobStart
    /\ PlanIdle
    /\ KeyIdle
    /\ ErrorIdle
    /\ \E n \in 1..MaxRows : candidates \in CandidateRows(n)
    /\ ScoreStart

notScore == <<fetchVars, sweepVars, flowVars, jobVars, planVars, keyVars, errorVars>>

\* run() and clean_flights after the summary rows are built: the eligible
\* rows are scored, then summary_rows.sort(key=score_key, reverse=True)
Score ==
    /\ score_at = "rows"
    /\ scored_rows' = SortByScoreKey(Scored(candidates))
    /\ score_at' = "scored"
    /\ UNCHANGED <<notScore, candidates>>

NextScore == Score

SpecScore == InitScore /\ [][NextScore]_vars

\* ------------------------------------------------------- the cache key
\* date.isoformat() of a day of one month
IsoDate(day) == "2026-01-" \o (IF day < 10 THEN "0" ELSE "") \o ToString(day)

\* "|".join(parts)
RECURSIVE Join(_)
Join(parts) ==
    IF Len(parts) = 1 THEN Head(parts)
    ELSE Head(parts) \o "|" \o Join(Tail(parts))

\* a key that leaves the currency out
make_cache_key_no_currency(segment_date, return_date, trip_type, origin, dest, seat, passenger_counts, max_stops, currency, mode) ==
    Join(<<IsoDate(segment_date),
           IF return_date # NoValue THEN IsoDate(return_date) ELSE "",
           trip_type, origin, dest, seat,
           ToString(passenger_counts.adults),
           ToString(passenger_counts.children),
           ToString(passenger_counts.infants_in_seat),
           ToString(passenger_counts.infants_on_lap),
           IF max_stops # NoValue THEN ToString(max_stops) ELSE "",
           mode>>)

make_cache_key(segment_date, return_date, trip_type, origin, dest, seat, passenger_counts, max_stops, currency, mode) ==
    Join(<<IsoDate(segment_date),
           IF return_date # NoValue THEN IsoDate(return_date) ELSE "",
           trip_type, origin, dest, seat,
           ToString(passenger_counts.adults),
           ToString(passenger_counts.children),
           ToString(passenger_counts.infants_in_seat),
           ToString(passenger_counts.infants_on_lap),
           IF max_stops # NoValue THEN ToString(max_stops) ELSE "",
           currency,
           mode>>)

\* the arguments of one fetch_segment call that enter the key
KeyOf(r) ==
    make_cache_key(r.depart_date, r.return_date, r.trip_type, r.origin, r.dest, r.seat,
                   r.passenger_counts, r.max_stops, r.currency, r.fetch_mode)

PassengerCounts(adults, children, infants_in_seat, infants_on_lap) ==
    [adults |-> adults, children |-> children,
     infants_in_seat |-> infants_in_seat, infants_on_lap |-> infants_on_lap]

\* the values a field takes
Values(field) ==
    CASE field = "depart_date" -> <<5, 12>>
      [] field = "return_date" -> <<NoValue, 12, 19>>
      [] field = "trip_type" -> <<"one-way", "round-trip">>
      [] field = "origin" -> <<"CDG", "ORY">>
      [] field = "dest" -> <<"JFK", "EWR">>
      [] field = "seat" -> <<"economy", "business">>
      [] field = "passenger_counts" ->
            <<PassengerCounts(1, 0, 0, 0), PassengerCounts(2, 0, 0, 0),
              PassengerCounts(1, 1, 0, 0), PassengerCounts(1, 0, 1, 0),
              PassengerCounts(1, 0, 0, 1), PassengerCounts(1, 10, 0, 0),
              PassengerCounts(11, 0, 0, 0)>>
      [] field = "max_stops" -> <<NoValue, 0, 1>>
      [] field = "currency" -> <<"", "EUR", "USD">>
      [] field = "fetch_mode" -> <<"local", "common">>

Domain(field) == {Values(field)[n] : n \in 1..Len(Values(field))}

\* the most values a field takes
MaxValues == 7

KeyFields ==
    {"depart_date", "return_date", "trip_type", "origin", "dest", "seat",
     "passenger_counts", "max_stops", "currency", "fetch_mode"}

\* the passenger counts differ in one of the four
OneCountApart(a, b) ==
    Cardinality({n \in {"adults", "children", "infants_in_seat", "infants_on_lap"} :
                    a[n] # b[n]}) = 1

\* the requests that differ from r in exactly one field
Alterations(r) ==
    {alt \in UNION {{[r EXCEPT ![field] = v] : v \in Domain(field)} : field \in KeyFields} :
        /\ alt # r
        /\ alt.passenger_counts # r.passenger_counts
              => OneCountApart(alt.passenger_counts, r.passenger_counts)}

\* what build_trip_requests gives: a return date on a round trip, and only there
Buildable(r) == (r.trip_type = "round-trip") <=> (r.return_date # NoValue)

FirstRequests ==
    {r \in [depart_date : Domain("depart_date"), return_date : Domain("return_date"),
            trip_type : Domain("trip_type"), origin : {"CDG"}, dest : {"JFK"},
            seat : {"economy"}, passenger_counts : {PassengerCounts(1, 0, 0, 0)},
            max_stops : Domain("max_stops"), currency : Domain("currency"),
            fetch_mode : {"local"}] : Buildable(r)}

InitKey ==
    /\ FetchIdle
    /\ SweepIdle
    /\ FlowIdle
    /\ JobStart
    /\ PlanIdle
    /\ ScoreIdle
    /\ ErrorIdle
    /\ first_request \in FirstRequests
    /\ KeyStart

notKey == <<fetchVars, sweepVars, flowVars, jobVars, planVars, scoreVars, errorVars>>

\* fetch_segment without pool or limiter: the lookup under the key, and on a
\* miss the provider call, whose ok result goes into the cache
FetchUnder(r, ok) ==
    /\ second_hit' = (KeyOf(r) \in key_entries)
    /\ IF KeyOf(r) \in key_entries
       THEN UNCHANGED <<key_entries, key_calls>>
       ELSE /\ key_calls' = key_calls + 1
            /\ key_entries' = IF ok THEN key_entries \cup {KeyOf(r)} ELSE key_entries

KeyFirst(ok) ==
    /\ key_at = "first"
    /\ FetchUnder(first_request, ok)
    /\ key_at' = "second"
    /\ UNCHANGED <<notKey, first_request, second_request>>

\* the call for the request that has the n-th value in one field: a request
\* one field apart, or the same request
KeySecond(field, n, ok) ==
    /\ key_at = "second"
    /\ n <= Len(Values(field))
    /\ LET r == [first_request EXCEPT ![field] = Values(field)[n]]
       IN  /\ r \in Alterations(first_request) \cup {first_request}
           /\ Buildable(r)
           /\ second_request' = r
           /\ FetchUnder(r, ok)
    /\ key_at' = "done"
    /\ UNCHANGED <<notKey, first_request>>

NextKey ==
    \/ \E ok \in BOOLEAN : KeyFirst(ok)
    \/ \E field \in KeyFields, n \in 1..MaxValues, ok \in BOOLEAN : KeySecond(field, n, ok)

SpecKey == InitKey /\ [][NextKey]_vars

\* ------------------------------------------------------------------- claims
Returned(c) == pc[c] = "done" /\ result[c] # Raised

Overlap(c, d) == d \notin startedAfter[c] /\ c \notin startedAfter[d]

FirstOf(S) == CHOOSE c \in S : \A d \in S : c <= d

\* a set of calls of one key that pairwise overlap in time, the key being
\* absent from the cache when the first of them started, all returned
Coalescible(S) ==
    /\ Cardinality(S) >= 2
    /\ pooled
    /\ \A c \in S : Returned(c)
    /\ \A c, d \in S : key[c] = key[d] /\ (c # d => Overlap(c, d))
    /\ missAtStart[FirstOf(S)]

\* C1: N >= 2 fetch_segment calls that overlap in time and share one cache key
\* (absent from the cache when the first starts, coalescing enabled) invoke the
\* provider exactly once, and all of them return the same status, candidate
\* list and error message.
C1_OneCallPerKey ==
    \A S \in SUBSET Calls :
        Coalescible(S) =>
            /\ SumOver(called, S) = 1
            /\ \A c, d \in S : result[c].resp = result[d].resp

\* C2: an owner, however it finishes, stores a response in its entry before it
\* sets the event, sets the event exactly once and then removes its marker;
\* the registry holds a marker only while its owner's fetch is in progress;
\* and every waiter is eventually released with a non-null response.
C2_OwnerSafety ==
    /\ \A c \in Calls : entryEvent[c] => entryResp[c] # Null
    /\ \A c \in Calls : eventSets[c] <= 1
    /\ \A c \in Calls : owner[c] /\ pc[c] \in {"pop", "done"} => eventSets[c] = 1
    /\ \A c \in Calls : owner[c] /\ pc[c] = "done" => inflight[key[c]] # c
    /\ \A k \in Keys :
          inflight[k] # 0 =>
              /\ owner[inflight[k]]
              /\ key[inflight[k]] = k
              /\ pc[inflight[k]] \in {"acquire", "provider", "finally", "set", "pop"}
    /\ \A c \in Calls :
          pc[c] = "done" /\ result[c].cache_source = "inflight" =>
              result[c].resp # Null

C2_OwnerSignals ==
    /\ []C2_OwnerSafety
    /\ \A c \in Calls :
          (pc[c] = "wait") ~> (pc[c] = "done" /\ result[c].resp # Null)

\* a waiter was released with the placeholder of an owner that raised, and the
\* owner has removed its marker
C2_Witness ==
    \E c, d \in Calls :
        /\ owner[c] /\ pc[c] = "done" /\ result[c] = Raised
        /\ pc[d] = "done"
        /\ result[d] = Tagged(InflightFailed, TRUE, "inflight")
        /\ inflight[key[c]] = 0

\* C3: every entry of the in-memory cache has status ok, and so has every entry
\* of the file once save_cache has written it; a cache hit always carries an ok
\* entry, and a key whose loaded file entry is not ok is absent from the cache
\* when the first call of the run asks for it (it is fetched again).
C3_OnlyOkCached ==
    /\ \A k \in Keys : cache[k] = Null \/ cache[k].status = "ok"
    /\ phase = "saved" => \A k \in Keys : cacheFile[k] = Null \/ cacheFile[k].status = "ok"
    /\ \A c \in Calls :
          pc[c] = "done" /\ result[c].from_cache /\ result[c].cache_source = "" =>
              result[c].resp.status = "ok"
    /\ phase = "run" /\ pc[1] # "idle" /\ cacheFile[key[1]].status = "error" =>
          /\ missAtStart[1]
          /\ pc[1] = "done" => ~result[1].from_cache \/ result[1].cache_source = "inflight"

\* a run whose file held a non-ok entry has fetched that key live, got an error
\* again and an ok result for the other key, and has saved only the ok one
C3_Witness ==
    /\ phase = "saved"
    /\ \E c, d \in Calls :
          /\ result[c].resp.status = "error" /\ ~result[c].from_cache
          /\ result[d].resp.status = "ok" /\ ~result[d].from_cache
          /\ cacheFile[key[c]] = Null
          /\ cacheFile[key[d]] = result[d].resp

\* C8: the slots reserved by acquire are pairwise at least min_interval apart;
\* every live provider call is preceded by exactly one acquire of its caller,
\* and cache hits and in-flight waiters reserve no slot.
C8_FixedIntervalPacing ==
    /\ \A i, j \in DOMAIN slots : i < j => slots[j] - slots[i] >= MinInterval
    /\ \A c \in Calls :
          (pc[c] = "provider" \/ called[c] > 0) => acquires[c] = 1 /\ called[c] <= 1
    /\ \A c \in Calls : pc[c] = "done" /\ result[c].from_cache => acquires[c] = 0
    /\ Len(slots) = SumOver(acquires, Calls)

\* two callers acquire at the same instant after the limiter has been idle for
\* two intervals: the second is still put one interval later
C8_Witness ==
    /\ Len(slots) = 2
    /\ slots[1] >= 2 * MinInterval
    /\ slots[1] = now
    /\ slots[2] = slots[1] + MinInterval
    /\ \A c \in Calls : called[c] = 1

\* ------------------------------------------------------ claims on the sweep
\* a query of an itinerary has a priced best candidate
HasBest(id, q) == summary_best[<<id, q>>] # NoBest

\* every query planned for the itinerary (every TripRequest of its schedule)
AllQueriesPriced(id) == \A q \in 0..(summary_meta[id] - 1) : HasBest(id, q)

RowsOf(srows, id) == {i \in 1..Len(srows) : srows[i].itinerary_id = id}

NoTotals(row) ==
    /\ row.min_total_price = NoValue
    /\ row.total_duration_min = NoValue
    /\ row.total_stops = NoValue
    /\ row.night_segments = NoValue
    /\ row.score = NoValue

NullUnlessAllPriced(srows) ==
    \A id \in 1..Len(summary_meta) :
        ~AllQueriesPriced(id) =>
            /\ RowsOf(srows, id) # {}
            /\ \A i \in RowsOf(srows, id) : NoTotals(srows[i])

\* C4: in the summary written by run and in the clean summary written by
\* clean_flights, an itinerary with a planned query that has no priced best
\* candidate is present as a row, and its total price, total duration, total
\* stops, night count and score are all null.
C4_TotalsNullUnlessAllPriced ==
    at = "end" => NullUnlessAllPriced(summary_rows) /\ NullUnlessAllPriced(clean_summary)

SortedAsSpecified(srows) ==
    \A i, j \in 1..Len(srows) :
        i < j =>
            /\ srows[i].score = NoValue => srows[j].score = NoValue
            /\ srows[i].score # NoValue /\ srows[j].score # NoValue =>
                  \/ srows[i].score > srows[j].score
                  \/ /\ srows[i].score = srows[j].score
                     /\ \/ srows[i].min_total_price < srows[j].min_total_price
                        \/ /\ srows[i].min_total_price = srows[j].min_total_price
                           /\ srows[i].total_duration_min <= srows[j].total_duration_min

\* C6: both summaries are written sorted by score descending, every row
\* without score after all scored rows, rows of equal score by lower total
\* price, then lower total duration.
C6_SummarySorted ==
    at = "end" => SortedAsSpecified(summary_rows) /\ SortedAsSpecified(clean_summary)

RowBefore(a, b) ==
    \/ a.itinerary_id < b.itinerary_id
    \/ a.itinerary_id = b.itinerary_id /\ a.query_index <= b.query_index

\* C9: with a worker pool, every fetch task not yet handled belongs to the
\* current query (no task of a later query is submitted while one of the
\* current query is pending), at most as many fetches as the query has pairs
\* are in progress, and the raw rows of one query all precede the rows of
\* the next query.
C9_QueryBarrier ==
    executor =>
        /\ \A t \in futures :
              t.itinerary_id = schedule_index /\ t.query_index = query_idx
        /\ Cardinality(futures) <= pairs
        /\ \A i, j \in 1..Len(rows) : i < j => RowBefore(rows[i], rows[j])

\* the pool completed the pairs of query 0 out of order, both responses are
\* handled and the loop has moved on to query 1
C9_Witness ==
    /\ executor
    /\ at = "query"
    /\ query_idx = 1
    /\ \E i, j \in 1..Len(rows) :
          /\ i < j
          /\ rows[i].query_index = 0 /\ rows[i].from_airport = 2
          /\ rows[j].query_index = 0 /\ rows[j].from_airport = 1

\* the raw rows of one airport pair of a query, in writing order
RowsOfPair(k, p) ==
    SelectSeq(rows, LAMBDA r : /\ r.itinerary_id = k[1]
                               /\ r.query_index = k[2]
                               /\ r.from_airport = p)

\* the raw rows of a query as the pairs were submitted
RECURSIVE InPairOrder(_, _)
InPairOrder(k, p) ==
    IF p > MaxPairs THEN <<>> ELSE RowsOfPair(k, p) \o InPairOrder(k, p + 1)

\* the summary_best update of handle_response, run over raw rows
RECURSIVE BestOver(_, _)
BestOver(raw, current_best) ==
    IF raw = <<>> THEN current_best
    ELSE LET row == Head(raw)
             entry == BestEntry(row.price_value,
                                parse_duration_minutes(row.duration), row.stops,
                                is_night_segment(row.ahead), row.from_airport,
                                row.flight_name)
         IN BestOver(Tail(raw),
                     IF row.price_value # NoValue /\ Improves(row.price_value, current_best)
                     THEN entry
                     ELSE current_best)

\* every raw row, query by query, pairs in submission order
RECURSIVE InSubmissionOrder(_)
InSubmissionOrder(i) ==
    IF i > MaxSchedules * MaxQueries THEN <<>>
    ELSE InPairOrder(<<((i - 1) \div MaxQueries) + 1, (i - 1) % MaxQueries>>, 1)
            \o InSubmissionOrder(i + 1)

\* C10: the best candidate kept for a query whose responses are all handled
\* (price, duration, stops, night flag, airport pair, airline) is the one
\* kept when the same responses are handled in submission order, and so is
\* the clean summary with its totals and scores: the completion order of the
\* pool does not show.
C10_BestIndependentOfOrder ==
    /\ \A k \in BestKeys :
          (\A t \in futures : <<t.itinerary_id, t.query_index>> # k)
              => summary_best[k] = BestOver(InPairOrder(k, 1), NoBest)
    /\ at = "end" => clean_summary = CleanSummary(InSubmissionOrder(1))

\* ------------------------------------- claims on orchestrators and on jobs
\* the sweep under the primary mode ran to its end and every query came back
\* empty or error
PrimaryUnpriced ==
    /\ primary # Crashed
    /\ primary # <<>>
    /\ \A p \in 1..Len(primary) : primary[p].status \in {"empty", "error"}

\* C5: when the sweep under the primary fetch mode ends with every query
\* empty or error and a fallback mode other than the primary is configured,
\* the orchestrator (either of the two) runs the planner under the fallback
\* mode exactly once for that destination.
C5_FallbackExactlyOnce ==
    (step = "next" /\ PrimaryUnpriced /\ fallback_mode # "" /\ fallback_mode # fetch_mode)
        => sweeps = <<fetch_mode, fallback_mode>>

\* C7: once a job is cancelled and the cancel call has returned, no planner
\* subprocess spawned for the job is running.
C7_NoProcessLeftRunning ==
    (status = "cancelled" /\ cancel_pc = "idle")
        => \A r \in Runs : proc[r] # "running"

\* --------------------------------------------- claims on the configuration
\* C11: a run that a configuration error aborts (malformed node, no departure
\* date, non-positive step, stop group without stay nights, node group absent
\* from groups) has issued no fetch and has written no raw row, whatever the
\* number of itineraries.
C11_ConfigErrorBeforeFetch ==
    plan_at = "raised" => fetched = 0 /\ written = 0

\* the node strings of the configuration, one sequence per itinerary
IsWord(s) == s # <<>> /\ \A i \in 1..Len(s) : s[i] \in WordChars

\* GROUP(code1,code2,...): a word, "(", a list free of parentheses, ")"
IsOverrideForm(s) ==
    LET n == WordPrefix(s)
    IN /\ n > 0
       /\ Len(s) >= n + 3
       /\ s[n + 1] = "("
       /\ s[Len(s)] = ")"
       /\ \A i \in (n + 2)..(Len(s) - 1) : s[i] \notin {"(", ")"}

\* the NodeSpec the two documented forms stand for
Documented(raw) ==
    LET s == Strip(raw)
        n == WordPrefix(s)
    IN IF IsWord(s) THEN NodeSpec(UpperText(s), None)
       ELSE IF IsOverrideForm(s)
            THEN NodeSpec(UpperText(SubSeq(s, 1, n)),
                          Override(NormalizeFrom(Split(SubSeq(s, n + 2, Len(s) - 1)), {})))
       ELSE InvalidNodeSpec

\* C19: a node string GROUP parses to the NodeSpec of that group (upper-cased)
\* without override, GROUP(code1,code2,...) to the NodeSpec of that group with
\* the codes trimmed, upper-cased, deduplicated in order; any other string is
\* rejected, which aborts the run.
C19_NodeSyntax ==
    plan_at # "config" =>
        LET raw == config.itineraries
            rejected == \E i \in 1..Len(raw) : \E j \in 1..Len(raw[i]) :
                            Documented(raw[i][j]) = InvalidNodeSpec
        IN IF rejected THEN plan_at = "raised" /\ itineraries = <<>>
           ELSE itineraries =
                    [i \in 1..Len(raw) |->
                        [j \in 1..Len(raw[i]) |-> Documented(raw[i][j])]]

\* the number of stay-night options of a stay_nights entry
StayOptions(cfg) ==
    IF cfg.kind = "nights" THEN 1 ELSE ((cfg.max - cfg.min) \div cfg.step) + 1

RECURSIVE ProductOver(_, _)
ProductOver(f, S) ==
    IF S = {} THEN 1
    ELSE LET x == CHOOSE y \in S : TRUE IN f[x] * ProductOver(f, S \ {x})

\* C15: without return filter, trip-nights range and combination cap,
\* iter_schedule_combos yields (departure dates) x (product of the stops'
\* stay options) schedules: 6 for two dates and one stop with min 3, max 5,
\* step 1, one per date for a two-node itinerary; every schedule has one date
\* per leg, the first a departure date and each next one the previous plus the
\* stay.
C15_ScheduleCount ==
    (plan_at \in {"schedule", "query"} /\ config.max_combinations_per_itinerary = 0) =>
        LET nodes == itineraries[itinerary_idx]
            stops == 1..(Len(nodes) - 2)
            options == [i \in stops |-> StayOptions(config.stay_nights[nodes[i + 1].group])]
        IN /\ Len(combos) = Len(departure_dates) * ProductOver(options, stops)
           /\ Len(nodes) = 2 => Len(combos) = Len(departure_dates)
           /\ (/\ Len(nodes) = 3
               /\ Len(departure_dates) = 2
               /\ config.stay_nights[nodes[2].group] = NightRange(3, 5, 1))
                 => Len(combos) = 6
           /\ \A k \in 1..Len(combos) :
                 LET segment_dates == combos[k].segment_dates
                     stay_nights == combos[k].stay_nights
                 IN /\ Len(segment_dates) = Len(nodes) - 1
                    /\ Len(stay_nights) = Len(nodes) - 2
                    /\ \E d \in 1..Len(departure_dates) :
                          segment_dates[1] = departure_dates[d]
                    /\ \A i \in 2..Len(segment_dates) :
                          segment_dates[i] = segment_dates[i - 1] + stay_nights[i - 1]
           /\ \A k, l \in 1..Len(combos) : k # l => combos[k] # combos[l]

\* the six schedules of two dates and one stop of 3 to 5 nights are all taken
C15_Witness ==
    /\ plan_at = "schedule"
    /\ config.max_combinations_per_itinerary = 0
    /\ Len(itineraries[itinerary_idx]) = 3
    /\ Len(departure_dates) = 2
    /\ Len(combos) = 6
    /\ combo_idx = 6
    /\ combos[1].stay_nights = <<3>>
    /\ combos[6].stay_nights = <<5>>

Groups(nodes) == [i \in 1..Len(nodes) |-> nodes[i].group]

\* C14: under chasles-nested the itinerary A, B, C, B, A gives two round-trip
\* requests and no one-way: B-C (segment 1, span 2) is emitted first, A-B
\* (segment 0, span 4) second, and the sort by (depart date, segment index)
\* makes A-B query 0 and B-C query 1.
C14_ChaslesNested ==
    (/\ plan_at = "query"
     /\ config.trip_strategy = "chasles-nested"
     /\ Groups(itineraries[itinerary_idx]) = <<"A", "B", "C", "B", "A">>) =>
        LET nodes == itineraries[itinerary_idx]
            schedule == combos[combo_idx]
            d == schedule.segment_dates
            inner == TripRequest("round-trip", nodes[2], nodes[3], d[2], d[3],
                                 d[3] - d[2], 1, 2)
            outer == TripRequest("round-trip", nodes[1], nodes[2], d[1], d[4],
                                 d[4] - d[1], 0, 4)
        IN /\ ChaslesEmitted(Segments(nodes, schedule)) = <<inner, outer>>
           /\ trip_requests = <<outer, inner>>

\* both round trips of the nested itinerary are fetched
C14_Witness ==
    /\ plan_at = "query"
    /\ config.trip_strategy = "chasles-nested"
    /\ Groups(itineraries[itinerary_idx]) = <<"A", "B", "C", "B", "A">>
    /\ Len(trip_requests) = 2
    /\ request_idx = 2
    /\ fetched >= 2


\* ------------------------------------------------ claims on the fallback
\* C17: for one destination the planner runs at most twice, first under the
\* primary mode and then under the fallback mode; it runs the second time only
\* when a fallback mode other than the primary is configured and the cleaned
\* output of the primary sweep (clean flights and clean summary) has no row;
\* a fallback sweep that yields nothing is followed by no third run.
C17_AtMostOneFallback ==
    /\ Len(sweeps) <= 2
    /\ Len(sweeps) >= 1 => sweeps[1] = fetch_mode
    /\ Len(sweeps) = 2 =>
          /\ sweeps[2] = fallback_mode
          /\ fallback_mode # ""
          /\ fallback_mode # fetch_mode
          /\ primary # Crashed
          /\ KeptRows(RawRows(primary)) = <<>>
          /\ CleanSummary(RawRows(primary)) = <<>>

\* the fallback sweep ran and yielded nothing
C17_Witness ==
    /\ step = "next"
    /\ Len(sweeps) = 2
    /\ flight_rows = <<>>
    /\ loaded_rows = <<>>

\* -------------------------------------------- claims on a corrupt cache
\* every entry of cache_entries was fetched live by a call of this run
FetchedLive ==
    \A k \in Keys :
        cache[k] # Null =>
            \E c \in Calls : key[c] = k /\ called[c] >= 1 /\ data[c] = cache[k]

\* C20: when the cache path names something load_cache cannot read a cache
\* from (unreadable, or not the JSON document save_cache writes), load_cache
\* returns no entry instead of raising, so the run starts from an empty cache
\* and fetches every key live; the run does not end on an exception, and at
\* its end the file holds the ok results of this run.
C20_CorruptCacheStartsEmpty ==
    cache_path \in CorruptPaths =>
        /\ phase # "crashed"
        /\ phase # "load" => FetchedLive
        /\ phase = "saved" =>
              /\ cacheFile = cache
              /\ \A k \in Keys : cacheFile[k] # Null => cacheFile[k].status = "ok"

\* ------------------------------------- claims on provider exceptions
\* C18: an exception whose message contains "No flights found" is recorded
\* with status empty and any other with status error; the message kept in the
\* result and written to the raw row is at most ErrorLimit characters long.
C18_ErrorClassifiedAndBounded ==
    /\ error_at # "raised" =>
          /\ error_data.status = (IF is_no_flights_error(exc) THEN "empty" ELSE "error")
          /\ TextLen(error_data.error) <= ErrorLimit
    /\ error_at = "written" =>
          /\ error_row.status = error_data.status
          /\ TextLen(error_row.error) <= ErrorLimit

\* ------------------------------------------------- claims on the scoring
\* two rows with the same duration, stops and nights
SameButPrice(a, b) ==
    /\ a.total_duration_min = b.total_duration_min
    /\ a.total_stops = b.total_stops
    /\ a.night_segments = b.night_segments

\* exactly two rows are eligible, priced 100 and 200, the same otherwise
TwoPriced(srows) ==
    \E i, j \in Eligible(srows) :
        /\ Eligible(srows) = {i, j}
        /\ srows[i].min_total_price = 100
        /\ srows[j].min_total_price = 200
        /\ SameButPrice(srows[i], srows[j])

\* C16: under the default weights, when exactly two rows are eligible, with
\* total prices 100 and 200 and the same duration, stops and nights, the
\* cheaper one scores 100 and the other 40 (scores in hundredths); and of two
\* eligible rows that differ only in price, the cheaper never scores lower.
C16_CheaperScoresHigher ==
    score_at = "scored" =>
        /\ TwoPriced(scored_rows) =>
              \A i \in Eligible(scored_rows) :
                  scored_rows[i].score =
                      (IF scored_rows[i].min_total_price = 100 THEN 10000 ELSE 4000)
        /\ \A i, j \in Eligible(scored_rows) :
              (SameButPrice(scored_rows[i], scored_rows[j])
                  /\ scored_rows[i].min_total_price < scored_rows[j].min_total_price)
                  => scored_rows[i].score >= scored_rows[j].score

\* the two rows of the example, scored and sorted
C16_Witness ==
    /\ score_at = "scored"
    /\ TwoPriced(scored_rows)
    /\ Len(scored_rows) = 2
    /\ scored_rows[1].score = 10000
    /\ scored_rows[2].score = 4000

\* ----------------------------------------------- claims on the cache key
\* C13: two requests that differ in exactly one of depart date, return date,
\* trip type, origin, destination, seat, one passenger count, max_stops,
\* currency, fetch mode have different keys; so, when the cache holds the ok
\* entry of the first call, the call for a request one field apart is a miss
\* and invokes the provider again.
C13_OneFieldApart ==
    /\ \A alt \in Alterations(first_request) : KeyOf(alt) # KeyOf(first_request)
    /\ (key_at = "done"
          /\ second_request \in Alterations(first_request)
          /\ KeyOf(first_request) \in key_entries)
        => ~second_hit /\ key_calls = 2

\* the first call was cached, the second differed in the currency alone
C13_Witness ==
    /\ key_at = "done"
    /\ second_request = [first_request EXCEPT !.currency = "USD"]
    /\ first_request.currency = "EUR"
    /\ KeyOf(first_request) \in key_entries
    /\ ~second_hit
    /\ key_calls = 2

\* ------------------------------------------ claims on provider failures
\* the main thread handles a response that is not ok: one raw row more, for
\* the pair of the task, with the status of the response; no best candidate
\* changes, and the loops stay where they were
FailureRecorded(t, response) ==
    /\ Len(rows') = Len(rows) + 1
    /\ SubSeq(rows', 1, Len(rows)) = rows
    /\ rows'[Len(rows')].status = response.status
    /\ rows'[Len(rows')].status \in {"empty", "error"}
    /\ rows'[Len(rows')].itinerary_id = t.itinerary_id
    /\ rows'[Len(rows')].query_index = t.query_index
    /\ rows'[Len(rows')].from_airport = t.pair
    /\ summary_best' = summary_best
    /\ futures' = futures \ {t}
    /\ UNCHANGED <<at, schedule_index, queries, query_idx, pairs, stop_early>>

NoDuplicate(flights) ==
    \A i, j \in DOMAIN flights : i # j => flights[i] # flights[j]

\* the first m distinct candidates of a list, in the order of the list
RECURSIVE FirstDistinct(_, _, _)
FirstDistinct(flights, m, kept) ==
    IF flights = <<>> \/ Len(kept) = m THEN kept
    ELSE IF \E i \in DOMAIN kept : kept[i] = Head(flights)
         THEN FirstDistinct(Tail(flights), m, kept)
         ELSE FirstDistinct(Tail(flights), m, Append(kept, Head(flights)))

\* C21: with max_flight_options_per_segment = m > 0, every ok result a call
\* returns (live, from the cache, from an in-flight owner) holds at most m
\* candidates and none twice; a live fetch returns the first m distinct
\* candidates of the provider's list, in the provider's order.
C21_CapOnEveryOkResult ==
    /\ [](max_flights > 0 =>
            \A c \in Calls :
                (pc[c] = "done" /\ result[c].resp.status = "ok") =>
                    /\ Len(result[c].resp.flights) <= max_flights
                    /\ NoDuplicate(result[c].resp.flights))
    /\ [][max_flights > 0 =>
            \A c \in Calls : \A out \in ProviderOutcomes :
                (FetchProvider(c, out) /\ out.kind = "list") =>
                    result'[c].resp.flights =
                        FirstDistinct(out.flights, max_flights, <<>>)]_vars

\* ------------------------------------- claims on the order of the schedules
\* the stay-night values of a stay_nights entry
StayValues(cfg) ==
    IF cfg.kind = "nights" THEN {cfg.nights}
    ELSE LET lo == IF cfg.min > cfg.max THEN cfg.max ELSE cfg.min
             hi == IF cfg.min > cfg.max THEN cfg.min ELSE cfg.max
         IN {n \in lo..hi : (n - lo) % cfg.step = 0}

RECURSIVE SumSeq(_)
SumSeq(seq) == IF seq = <<>> THEN 0 ELSE Head(seq) + SumSeq(Tail(seq))

\* tuple a comes before tuple b in lexicographic order
RECURSIVE LexLess(_, _)
LexLess(a, b) ==
    IF a = <<>> \/ b = <<>> THEN a = <<>> /\ b # <<>>
    ELSE \/ Head(a) < Head(b)
         \/ Head(a) = Head(b) /\ LexLess(Tail(a), Tail(b))

\* a candidate: a departure date and one stay per stop
CandidateBefore(a, b) ==
    \/ a.date < b.date
    \/ a.date = b.date /\ LexLess(a.stays, b.stays)

\* the candidates of an itinerary: every departure date with every tuple of
\* stay options
ScheduleCandidates(nodes) ==
    LET stops == 1..(Len(nodes) - 2)
        options == [i \in stops |-> StayValues(config.stay_nights[nodes[i + 1].group])]
        tuples == {t \in [stops -> UNION {options[i] : i \in stops}] :
                      \A i \in stops : t[i] \in options[i]}
    IN {[date |-> departure_dates[d], stays |-> t] :
           d \in 1..Len(departure_dates), t \in tuples}

\* the final date passes the return-date filter and the total nights lie
\* within trip_nights_range
Accepted(cand) ==
    LET filt == config.return_filter
        total == SumSeq(cand.stays)
        final == cand.date + total
    IN /\ \/ filt.mode = "none"
          \/ filt.mode = "set" /\ final \in filt.dates
          \/ filt.mode = "range" /\ final >= filt.start /\ final <= filt.end
       /\ config.trip_min # NoValue => total >= config.trip_min
       /\ config.trip_max # NoValue => total <= config.trip_max

CandidateOf(schedule) ==
    [date |-> schedule.segment_dates[1], stays |-> schedule.stay_nights]

RoundTrips == {k \in 1..Len(trip_requests) : trip_requests[k].trip_type = "round-trip"}

\* the segment indices a request spans
Interval(request) ==
    request.segment_index..(request.segment_index + request.segment_span - 1)

\* the request pairs segment `out` with the later segment `back`, which runs
\* between the same two nodes the other way
PairsUp(request, nodes, dates, out, back) ==
    /\ out < back
    /\ request.segment_index = out
    /\ request.segment_span = back - out + 1
    /\ request.from_node = nodes[out + 1]
    /\ request.to_node = nodes[out + 2]
    /\ nodes[back + 1] = request.to_node
    /\ nodes[back + 2] = request.from_node
    /\ request.depart_date = dates[out + 1]
    /\ request.return_date = dates[back + 1]

\* C23: under chasles-nested every round-trip request pairs a segment with a
\* later segment that exactly reverses it, its span is return index minus
\* outbound index plus one, and the segment intervals of two round trips are
\* disjoint or one lies strictly inside the other.
C23_ParenthesisMatching ==
    (plan_at = "query" /\ config.trip_strategy = "chasles-nested") =>
        LET nodes == itineraries[itinerary_idx]
            dates == combos[combo_idx].segment_dates
            last == Len(dates) - 1
        IN /\ \A k \in RoundTrips :
                 \E out, back \in 0..last :
                     PairsUp(trip_requests[k], nodes, dates, out, back)
           /\ \A k, l \in RoundTrips :
                 k # l =>
                     LET I == Interval(trip_requests[k])
                         J == Interval(trip_requests[l])
                     IN \/ I \cap J = {}
                        \/ I \subseteq J /\ I # J
                        \/ J \subseteq I /\ I # J

\* two round trips, one inside the other, and a one-way after them
C23_Witness ==
    /\ plan_at = "query"
    /\ config.trip_strategy = "chasles-nested"
    /\ request_idx = Len(trip_requests)
    /\ Len(trip_requests) = 3
    /\ \E k, l \in RoundTrips :
          /\ Interval(trip_requests[k]) \subseteq Interval(trip_requests[l])
          /\ k # l
    /\ \E m \in 1..Len(trip_requests) : trip_requests[m].trip_type = "one-way"

\* segment i (from 1) is merged with the next one: it is not the return leg of
\* a merge, a next segment exists and ends at the origin of segment i
RECURSIVE MergedAt(_, _)
MergedAt(nodes, i) ==
    /\ i >= 1
    /\ i + 2 <= Len(nodes)
    /\ nodes[i + 2] = nodes[i]
    /\ ~MergedAt(nodes, i - 1)

\* C24: under round-trip-when-possible, in a scan from left to right, a
\* segment that is not the return leg of a merge is merged with the next one
\* into one round-trip request (span 2, return date the date of the next
\* segment, stay nights the difference of the two dates) exactly when the next
\* segment ends at its origin node, and is a one-way request of span 1
\* otherwise; a return leg has no request of its own, and the requests are in
\* ascending segment_index order.
C24_RoundTripWhenPossible ==
    (plan_at = "query" /\ config.trip_strategy = "round-trip-when-possible") =>
        LET nodes == itineraries[itinerary_idx]
            schedule == combos[combo_idx]
            dates == schedule.segment_dates
            count == Len(dates)
            at_index(i) == {k \in 1..Len(trip_requests) :
                               trip_requests[k].segment_index = i - 1}
        IN /\ \A i \in 1..count :
                 IF MergedAt(nodes, i - 1) THEN at_index(i) = {}
                 ELSE /\ Cardinality(at_index(i)) = 1
                      /\ \A k \in at_index(i) :
                            trip_requests[k] =
                                (IF MergedAt(nodes, i)
                                 THEN TripRequest("round-trip", nodes[i], nodes[i + 1],
                                                  dates[i], dates[i + 1],
                                                  dates[i + 1] - dates[i], i - 1, 2)
                                 ELSE TripRequest("one-way", nodes[i], nodes[i + 1],
                                                  dates[i], NoValue,
                                                  IF i <= Len(schedule.stay_nights)
                                                  THEN schedule.stay_nights[i]
                                                  ELSE NoValue,
                                                  i - 1, 1))
           /\ \A k, l \in 1..Len(trip_requests) :
                 k < l => trip_requests[k].segment_index < trip_requests[l].segment_index
           /\ \A k \in 1..Len(trip_requests) :
                 trip_requests[k].segment_index \in 0..(count - 1)

\* A, B, A, B: the first two segments are merged; the third ends at the origin
\* of the second, which is a return leg, and stays a one-way
C24_Witness ==
    /\ plan_at = "query"
    /\ config.trip_strategy = "round-trip-when-possible"
    /\ Groups(itineraries[itinerary_idx]) = <<"A", "B", "A", "B">>
    /\ request_idx = 2
    /\ Len(trip_requests) = 2
    /\ trip_requests[1].trip_type = "round-trip"
    /\ trip_requests[2].trip_type = "one-way"
    /\ trip_requests[2].segment_index = 2

\* the segments a request accounts for: its single leg, or its outbound leg
\* and its return leg
Legs(request) ==
    IF request.trip_type = "one-way" THEN {request.segment_index}
    ELSE {request.segment_index, request.segment_index + request.segment_span - 1}

\* C29: under every strategy each segment of the schedule is the single leg of
\* one one-way request, or the outbound or the return leg of one round-trip
\* request, and of no other request; so the segments number the one-way
\* requests plus twice the round-trip requests, and the segment strategy makes
\* one one-way request per segment.
C29_EverySegmentOnce ==
    plan_at = "query" =>
        LET count == Len(combos[combo_idx].segment_dates)
            all == 1..Len(trip_requests)
            one_way == {k \in all : trip_requests[k].trip_type = "one-way"}
        IN /\ all = one_way \cup RoundTrips
           /\ \A k \in one_way : trip_requests[k].segment_span = 1
           /\ \A k \in RoundTrips : trip_requests[k].segment_span >= 2
           /\ \A i \in 0..(count - 1) :
                 Cardinality({k \in all : i \in Legs(trip_requests[k])}) = 1
           /\ \A k \in all : Legs(trip_requests[k]) \subseteq 0..(count - 1)
           /\ count = Cardinality(one_way) + 2 * Cardinality(RoundTrips)
           /\ config.trip_strategy = "segment" =>
                 /\ RoundTrips = {}
                 /\ Len(trip_requests) = count
                 /\ \A k \in all : trip_requests[k].segment_index = k - 1

\* five segments under chasles-nested: two round trips and a segment left
\* over as a one-way, all fetched
C29_Witness ==
    /\ plan_at = "query"
    /\ config.trip_strategy = "chasles-nested"
    /\ Len(combos[combo_idx].segment_dates) = 5
    /\ Cardinality(RoundTrips) = 2
    /\ Len(trip_requests) = 3
    /\ request_idx = 3
    /\ fetched > 0

\* ------------------------------------------------ claims on a cache hit
\* what a call that finds its key in the cache leaves alone: the provider,
\* the rate limiter, the in-flight registry and its entries, the cache
CacheHitFrame(c) ==
    /\ called' = called
    /\ acquires' = acquires
    /\ next_time' = next_time
    /\ slots' = slots
    /\ inflight' = inflight
    /\ entryResp' = entryResp
    /\ entryEvent' = entryEvent
    /\ eventSets' = eventSets
    /\ owner'[c] = FALSE
    /\ entryRef'[c] = 0
    /\ cache' = cache
    /\ cacheFile' = cacheFile

\* C25: a call whose key holds an ok entry in the cache returns a copy of the
\* entry tagged from_cache = true, and returns at once: no provider call, no
\* rate limiter slot, nothing read from or written to the in-flight registry,
\* the cache entry as it was; and no call ever writes the from_cache or
\* cache_source tag into an entry of the cache.
C25_CacheHitFrame ==
    /\ [][\A c \in Calls : \A k \in Keys :
             (FetchLookup(c, k) /\ CacheHit(k)) =>
                 /\ result'[c] = Tagged(cache[k], TRUE, "")
                 /\ pc'[c] = "done"
                 /\ CacheHitFrame(c)]_vars
    /\ [](\A k \in Keys : cache_tags[k] = {})

\* with a pool and a limiter: the first call fetched the key live and the
\* second call was served from the cache
C25_Witness ==
    /\ pooled
    /\ limited
    /\ pc[1] = "done"
    /\ pc[2] = "done"
    /\ key[1] = key[2]
    /\ called[1] = 1
    /\ acquires[1] = 1
    /\ result[2] = Tagged(cache[key[2]], TRUE, "")
    /\ called[2] = 0
    /\ acquires[2] = 0
    /\ owner[2] = FALSE
    /\ Len(slots) = 1
    /\ inflight[key[2]] = 0

\* --------------------------------------- claims on the in-flight registry
\* call c is on its way to the provider or inside get_flights
LiveFetch(c) == pc[c] \in {"acquire", "provider"}

\* C26: with the in-flight registry in use, two provider calls for one key
\* are never in progress at the same time: a call goes to the provider for a
\* key only while it is the owner of the marker registered for that key, and
\* the marker an owner removes is the one it registered.
C26_OneProviderCallAtATime ==
    /\ [](pooled =>
            /\ \A c, d \in Calls :
                  (c # d /\ key[c] = key[d]) => ~(LiveFetch(c) /\ LiveFetch(d))
            /\ \A c \in Calls :
                  LiveFetch(c) => owner[c] /\ inflight[key[c]] = c /\ entryRef[c] = c)
    /\ [][\A c \in Calls :
             (pooled /\ FinallyPop(c)) => owner[c] /\ inflight[key[c]] = c]_vars

\* two overlapping calls of one key: the first has been to the provider and
\* has removed its marker, the second is at the provider under its own marker
C26_Witness ==
    /\ pooled
    /\ key[1] = key[2]
    /\ Overlap(1, 2)
    /\ pc[1] = "done"
    /\ called[1] = 1
    /\ owner[1]
    /\ pc[2] = "provider"
    /\ owner[2]
    /\ inflight[key[2]] = 2

\* ------------------------------------------ claims on the max_calls budget
\* what one turn of the query loop may submit under the budget: the n pairs
\* of the query, cut to what remains of the budget
Budgeted(n) ==
    LET remaining == max_calls - calls_submitted
    IN IF remaining <= 0 THEN 0 ELSE IF n > remaining THEN remaining ELSE n

\* C27: with max_calls = m > 0 the fetch tasks submitted over the run, cache
\* hits included, never exceed m: a query whose pairs would cross the budget
\* submits only what remains, no task is submitted once the budget is used
\* up, and at every query boundary and at the end of the run as many
\* responses have been handled as tasks were submitted.
C27_BudgetNeverExceeded ==
    /\ [](max_calls > 0 =>
            /\ calls_submitted <= max_calls
            /\ calls + Cardinality(futures) = calls_submitted
            /\ at \in {"query", "schedule", "end"} =>
                  calls = calls_submitted /\ futures = {})
    /\ [][max_calls > 0 =>
            /\ \A n \in 0..MaxPairs :
                  StartQuery(n) =>
                      /\ Cardinality(futures' \ futures) = Budgeted(n)
                      /\ calls_submitted' = calls_submitted + Budgeted(n)
            /\ calls_submitted = max_calls => futures' \subseteq futures]_vars

\* a budget of two, used up by two queries of one fetch each; the run stopped
\* at the head of the third
C27_Witness ==
    /\ max_calls = 2
    /\ at = "end"
    /\ stop_early
    /\ pairs = 1
    /\ calls_submitted = 2
    /\ calls = 2
    /\ Len(rows) >= 2
    /\ \E i, k \in 1..Len(rows) : rows[i].query_index # rows[k].query_index
                                     \/ rows[i].itinerary_id # rows[k].itinerary_id

\* ------------------------------------------------ claims on cancellation
\* C28: when JobQueue.cancel was called before the target function returned,
\* the status the job ends with is cancelled, not completed and not failed,
\* however the cancel call falls between the turns of the polling loop, the
\* exit of the terminated subprocess and the return code check.
C28_CancelledOnceCancelled ==
    [][(cancel_event /\ job_pc # "finished" /\ job_pc' = "finished")
          => status' = "cancelled"]_vars

\* --------------------------------------- claims on the two summaries
\* every candidate written to the raw CSV has a positive price and a duration
\* text of hours and minutes
EveryCandidatePriced ==
    \A i \in 1..Len(rows) :
        (rows[i].status = "ok" /\ rows[i].flight_name # "") =>
            /\ rows[i].price_value > 0
            /\ rows[i].duration # NoDuration
            /\ rows[i].duration.hr * 60 + rows[i].duration.min > 0

SameTotals(a, b) ==
    /\ a.query_count = b.query_count
    /\ a.priced_segments = b.priced_segments
    /\ a.min_total_price = b.min_total_price
    /\ a.total_duration_min = b.total_duration_min
    /\ a.total_stops = b.total_stops
    /\ a.night_segments = b.night_segments
    /\ a.score = b.score

\* C30: when every ok candidate of a sweep has a positive price and a duration
\* text of the form "H hr M min", the summary run writes and the clean summary
\* clean_flights writes from the raw rows of that run hold, for every
\* itinerary, the same query_count, priced_segments, total price, total
\* duration, total stops, night count and score.
C30_SummariesAgree ==
    (at = "end" /\ EveryCandidatePriced) =>
        \A id \in 1..Len(summary_meta) :
            /\ Cardinality(RowsOf(summary_rows, id)) = 1
            /\ Cardinality(RowsOf(clean_summary, id)) = 1
            /\ \A i \in RowsOf(summary_rows, id) :
                  \A j \in RowsOf(clean_summary, id) :
                      SameTotals(summary_rows[i], clean_summary[j])

====
